---- MODULE Spec2Model ----
(***************************************************************************)
(* R3dact: the heuristic phishing-analysis pipeline (Detector, Reasoner,   *)
(* Explainer) and the HTTP handler that runs it and persists its output.   *)
(*                                                                         *)
(* Text is modelled as a sequence of one-character strings, so that the    *)
(* substring tests, case folding, splitting and joining of the code are    *)
(* computed rather than assumed.                                           *)
(***************************************************************************)
EXTENDS Integers, Sequences, FiniteSets, TLC

VARIABLES
    content,      \* the text under analysis (req.body.content / analyze's input)
    type,         \* the declared category, "none" when absent (req.body.type)
    detection,    \* DetectionResult of the last analysis, NoValue before it
    reasoning,    \* ReasoningResult of the last analysis, NoValue before it
    explanation,  \* Explanation of the last analysis, NoValue before it
    status,       \* HTTP status of the last response, 0 before any
    clock,        \* the wall clock read by new Date()
    attacks,      \* rows of the attacks table, in insertion order
    lastId,       \* the AUTOINCREMENT counter of the attacks table
    initialized,  \* this.initialized of the store manager
    message,      \* the message or error text of the last response, "" when none
    manager,      \* which store manager the calls go to: "server" or "client"
    db,           \* this.db: 0 for null, n for the n-th Database object constructed
    file,         \* attacks.db on disk as last written, NoValue while it does not exist
    calls,        \* the calls made to the store manager, each with its position
    inputType,    \* the content type selected in AnalysisPanel
    clientAttacks \* the records AnalysisPanel has saved in the browser's table

vars == <<content, type, detection, reasoning, explanation, status, clock,
          attacks, lastId, initialized, message, manager, db, file, calls,
          inputType, clientAttacks>>

\* the state of AnalysisPanel
panelVars == <<inputType, clientAttacks>>

\* what the analysis stages leave alone
storeVars == <<message, manager, db, file, calls, inputType, clientAttacks>>

NoValue == [none |-> TRUE]

(***************************************************************************)
(* JavaScript string primitives.                                           *)
(***************************************************************************)
UpperChars == (* ABCDEFGHIJKLMNOPQRSTUVWXYZ *) <<"A","B","C","D","E","F","G","H","I","J","K","L","M","N","O","P","Q","R","S","T","U","V","W","X","Y","Z">>
LowerChars == (* abcdefghijklmnopqrstuvwxyz *) <<"a","b","c","d","e","f","g","h","i","j","k","l","m","n","o","p","q","r","s","t","u","v","w","x","y","z">>
DigitChars == (* 0123456789 *) <<"0","1","2","3","4","5","6","7","8","9">>

IsDigit(c) == \E k \in 1..10 : DigitChars[k] = c
IsUpper(c) == \E k \in 1..26 : UpperChars[k] = c
IsLower(c) == \E k \in 1..26 : LowerChars[k] = c
IsAlpha(c) == IsUpper(c) \/ IsLower(c)

\* \s of the regular expressions, over the characters the inputs use
IsSpace(c) == c \in {" ", "\t", "\n", "\r"}

toLowerCaseChar(c) ==
    IF IsUpper(c) THEN LowerChars[CHOOSE k \in 1..26 : UpperChars[k] = c] ELSE c

toLowerCase(s) == [i \in 1..Len(s) |-> toLowerCaseChar(s[i])]

\* p occurs in s at 0-based offset i
MatchesAt(s, p, i) ==
    /\ i >= 0
    /\ i + Len(p) <= Len(s)
    /\ \A j \in 1..Len(p) : s[i + j] = p[j]

includes(s, p) == \E i \in 0..(Len(s) - Len(p)) : MatchesAt(s, p, i)

endsWith(s, p) == MatchesAt(s, p, Len(s) - Len(p))

\* String.prototype.indexOf: the least 0-based offset, -1 when absent
indexOf(s, p) ==
    IF includes(s, p)
    THEN CHOOSE i \in 0..(Len(s) - Len(p)) :
            /\ MatchesAt(s, p, i)
            /\ \A k \in 0..(i - 1) : ~MatchesAt(s, p, k)
    ELSE -1

lastIndexOf(s, p) ==
    IF includes(s, p)
    THEN CHOOSE i \in 0..(Len(s) - Len(p)) :
            /\ MatchesAt(s, p, i)
            /\ \A k \in (i + 1)..(Len(s) - Len(p)) : ~MatchesAt(s, p, k)
    ELSE -1

\* String.prototype.replace with a string pattern: the first occurrence only
replace(s, p, r) ==
    LET i == indexOf(s, p)
    IN  IF i < 0 THEN s
        ELSE SubSeq(s, 1, i) \o r \o SubSeq(s, i + Len(p) + 1, Len(s))

\* String.prototype.split on a one-character separator
RECURSIVE split(_, _)
split(s, sep) ==
    LET i == indexOf(s, <<sep>>)
    IN  IF i < 0 THEN <<s>>
        ELSE <<SubSeq(s, 1, i)>> \o split(SubSeq(s, i + 2, Len(s)), sep)

\* Array.prototype.join
RECURSIVE join(_, _)
join(list, sep) ==
    IF list = <<>> THEN <<>>
    ELSE IF Len(list) = 1 THEN list[1]
    ELSE list[1] \o sep \o join(Tail(list), sep)

\* Array.prototype.slice(0, n)
slice(list, n) == SubSeq(list, 1, IF n < Len(list) THEN n ELSE Len(list))

\* String.prototype.substring(0, n)
substring(s, n) == SubSeq(s, 1, IF n < Len(s) THEN n ELSE Len(s))

\* Array.prototype.filter over a keyword list: the keywords the text contains
RECURSIVE filterIncluded(_, _)
filterIncluded(keywords, text) ==
    IF keywords = <<>> THEN <<>>
    ELSE (IF includes(text, Head(keywords)) THEN <<Head(keywords)>> ELSE <<>>)
         \o filterIncluded(Tail(keywords), text)

\* template-literal formatting of a non-negative integer
RECURSIVE numberToString(_)
numberToString(n) ==
    IF n < 10 THEN <<DigitChars[n + 1]>>
    ELSE numberToString(n \div 10) \o <<DigitChars[(n % 10) + 1]>>

\* the decimal value of a string of digits
RECURSIVE parseDecimal(_)
parseDecimal(s) ==
    IF s = <<>> THEN 0
    ELSE 10 * parseDecimal(SubSeq(s, 1, Len(s) - 1))
         + ((CHOOSE k \in 1..10 : DigitChars[k] = s[Len(s)]) - 1)

Min(a, b) == IF a < b THEN a ELSE b

\* F(e) with e evaluated once and bound to F's argument (a const declaration
\* followed by the code that uses it)
Apply(F(_), e) == CHOOSE r \in { F(v) : v \in {e} } : TRUE

(***************************************************************************)
(* new URL(url), without a base: the WHATWG URL parser as far as the       *)
(* protocol and hostname getters go.  Covered: leading and trailing space  *)
(* stripping, the scheme, the special schemes' authority (credentials,     *)
(* port, forbidden host code points, lower-casing, decimal IPv4            *)
(* canonicalisation), and non-special schemes.  Not covered, and absent    *)
(* from the inputs: tab and newline removal inside the text, percent       *)
(* escapes and non-ASCII in hosts, IPv6 literals, hexadecimal and octal    *)
(* IPv4 parts, IPv4 parts of more than nine digits, and the file: scheme.  *)
(***************************************************************************)
ParseFailure == [ok |-> FALSE, protocol |-> <<>>, hostname |-> <<>>]

\* the text without its leading and trailing spaces
Trim(s) ==
    IF \A k \in 1..Len(s) : IsSpace(s[k]) THEN <<>>
    ELSE LET first == CHOOSE i \in 1..Len(s) :
                        ~IsSpace(s[i]) /\ \A k \in 1..(i - 1) : IsSpace(s[k])
             last  == CHOOSE i \in 1..Len(s) :
                        ~IsSpace(s[i]) /\ \A k \in (i + 1)..Len(s) : IsSpace(s[k])
         IN  SubSeq(s, first, last)

IsSchemeChar(c) == IsAlpha(c) \/ IsDigit(c) \/ c \in {"+", "-", "."}

\* 0-based offset of the colon ending the scheme, -1 when the text has none
SchemeEnd(s) ==
    LET colon == indexOf(s, <<":">>)
    IN  IF /\ colon >= 1
           /\ IsAlpha(s[1])
           /\ \A k \in 2..colon : IsSchemeChar(s[k])
        THEN colon ELSE -1

SpecialSchemes == { (* http *) <<"h","t","t","p">>, (* https *) <<"h","t","t","p","s">>, (* ftp *) <<"f","t","p">>, (* ws *) <<"w","s">>, (* wss *) <<"w","s","s">> }

ForbiddenHostChars ==
    {" ", "\t", "\n", "\r", "#", "/", ":", "<", ">", "?", "@", "[", "\\", "]", "^", "|"}

ForbiddenDomainChars == ForbiddenHostChars \cup {"%"}

\* the length of the longest prefix of s whose characters all satisfy in(c)
PrefixLength(s, in(_)) ==
    IF \A k \in 1..Len(s) : in(s[k]) THEN Len(s)
    ELSE (CHOOSE i \in 1..Len(s) : ~in(s[i]) /\ \A k \in 1..(i - 1) : in(s[k])) - 1

SkipSlashes(s) ==
    LET IsSlash(c) == c \in {"/", "\\"}
    IN  SubSeq(s, PrefixLength(s, IsSlash) + 1, Len(s))

\* the prefix of s before the first character of stops
TakeUntil(s, stops) ==
    LET NotStop(c) == c \notin stops
    IN  SubSeq(s, 1, PrefixLength(s, NotStop))

AllDigits(s) == s # <<>> /\ \A k \in 1..Len(s) : IsDigit(s[k])

\* the labels of a host for the IPv4 test: one trailing empty label is dropped
HostParts(host) ==
    LET parts == split(host, ".")
    IN  IF Len(parts) > 1 /\ parts[Len(parts)] = <<>>
        THEN SubSeq(parts, 1, Len(parts) - 1) ELSE parts

EndsInNumber(host) == AllDigits(HostParts(host)[Len(HostParts(host))])

Pow256(k) == IF k = 0 THEN 1 ELSE IF k = 1 THEN 256 ELSE IF k = 2 THEN 65536
             ELSE 16777216

\* the IPv4 parser on decimal parts: the four octets, <<>> on failure
IPv4Octets(host) ==
    LET parts == HostParts(host)
        n     == Len(parts)
        last  == parseDecimal(parts[n])
    IN  IF n > 4 \/ \E k \in 1..n : ~AllDigits(parts[k]) \/ Len(parts[k]) > 9
        THEN <<>>
        ELSE IF \E k \in 1..(n - 1) : parseDecimal(parts[k]) > 255 THEN <<>>
        ELSE IF n > 1 /\ last >= Pow256(5 - n) THEN <<>>
        ELSE [k \in 1..4 |->
                IF k < n THEN parseDecimal(parts[k])
                ELSE (last \div Pow256(4 - k)) % 256]

SerializeIPv4(octets) ==
    join(<< numberToString(octets[1]), numberToString(octets[2]),
            numberToString(octets[3]), numberToString(octets[4]) >>, <<".">>)

\* the host parser of a special scheme, on the lower-cased host
ParseDomain(host) ==
    IF host = <<>> \/ \E k \in 1..Len(host) : host[k] \in ForbiddenDomainChars
    THEN ParseFailure
    ELSE IF EndsInNumber(host)
    THEN IF IPv4Octets(host) = <<>> THEN ParseFailure
         ELSE [ok |-> TRUE, protocol |-> <<>>,
               hostname |-> SerializeIPv4(IPv4Octets(host))]
    ELSE [ok |-> TRUE, protocol |-> <<>>, hostname |-> host]

ParseSpecialHost(raw) == Apply(ParseDomain, toLowerCase(raw))

\* the host parser of a non-special scheme: an opaque host
ParseOpaqueHost(raw) ==
    IF \E k \in 1..Len(raw) : raw[k] \in ForbiddenHostChars
    THEN ParseFailure
    ELSE [ok |-> TRUE, protocol |-> <<>>, hostname |-> raw]

\* host [":" port], after the credentials
ParseHostPort(hostport, special) ==
    LET colon   == indexOf(hostport, <<":">>)
        rawHost == IF colon < 0 THEN hostport ELSE SubSeq(hostport, 1, colon)
        port    == IF colon < 0 THEN <<>>
                   ELSE SubSeq(hostport, colon + 2, Len(hostport))
    IN  IF port # <<>> /\ (~AllDigits(port) \/ Len(port) > 5) THEN ParseFailure
        ELSE IF port # <<>> /\ parseDecimal(port) > 65535 THEN ParseFailure
        ELSE IF special THEN ParseSpecialHost(rawHost)
        ELSE ParseOpaqueHost(rawHost)

\* authority = [credentials "@"] host [":" port]
ParseAuthority(authority, special) ==
    LET at == lastIndexOf(authority, <<"@">>)
        HostPort(hostport) == ParseHostPort(hostport, special)
    IN  IF at < 0 THEN ParseHostPort(authority, special)
        ELSE IF at + 1 = Len(authority) THEN ParseFailure
        ELSE Apply(HostPort, SubSeq(authority, at + 2, Len(authority)))

SpecialAuthority(rest) ==
    LET Special(authority) == ParseAuthority(authority, TRUE)
    IN  Apply(Special, TakeUntil(SkipSlashes(rest), {"/", "\\", "?", "#"}))

OpaqueAuthority(rest) ==
    LET Opaque(authority) == ParseAuthority(authority, FALSE)
    IN  Apply(Opaque, TakeUntil(SubSeq(rest, 3, Len(rest)), {"/", "?", "#"}))

\* the parser on the trimmed text
ParseTrimmed(text) ==
    LET colon  == SchemeEnd(text)
        scheme == toLowerCase(SubSeq(text, 1, colon))
        rest   == SubSeq(text, colon + 2, Len(text))
        WithProtocol(parsed) ==
            IF ~parsed.ok THEN ParseFailure
            ELSE [ok |-> TRUE, protocol |-> scheme \o <<":">>,
                  hostname |-> parsed.hostname]
    IN  IF colon < 0 THEN ParseFailure
        ELSE IF scheme \in SpecialSchemes THEN Apply(WithProtocol, SpecialAuthority(rest))
        ELSE IF MatchesAt(rest, (* // *) <<"/","/">>, 0) THEN Apply(WithProtocol, OpaqueAuthority(rest))
        ELSE [ok |-> TRUE, protocol |-> scheme \o <<":">>, hostname |-> <<>>]

ParseURL(url) == Apply(ParseTrimmed, Trim(url))

(***************************************************************************)
(* Detector (DetectionEngine).  Each check yields its hits: the indicator  *)
(* it pushes together with the amount it adds to threatScore.              *)
(***************************************************************************)
\* a char sequence as a TLA+ string, for the interpolated descriptions
RECURSIVE Text(_)
Text(s) == IF s = <<>> THEN "" ELSE Head(s) \o Text(Tail(s))

Indicator(t, sev, desc, ev) ==
    [type |-> t, severity |-> sev, description |-> desc, evidence |-> ev]

Hit(ind, weight) == [indicator |-> ind, weight |-> weight]

RECURSIVE SumWeights(_)
SumWeights(hits) ==
    IF hits = <<>> THEN 0 ELSE Head(hits).weight + SumWeights(Tail(hits))

IndicatorsOf(hits) == [k \in 1..Len(hits) |-> hits[k].indicator]

PhishingThreshold == 40
MaxThreatScore == 100

\* the result with the sum returned as it is, without Math.min
DetectionResult_unclamped(hits, category) ==
    [isPhishing  |-> SumWeights(hits) >= PhishingThreshold,
     threatScore |-> SumWeights(hits),
     indicators  |-> IndicatorsOf(hits),
     category    |-> category]

\* the object both analyzers return
DetectionResult(hits, category) ==
    [isPhishing  |-> SumWeights(hits) >= PhishingThreshold,
     threatScore |-> Min(MaxThreatScore, SumWeights(hits)),
     indicators  |-> IndicatorsOf(hits),
     category    |-> category]

suspiciousTLDs ==
    << (* .tk *) <<".","t","k">>, (* .ml *) <<".","m","l">>, (* .ga *) <<".","g","a">>, (* .cf *) <<".","c","f">>, (* .gq *) <<".","g","q">>, (* .xyz *) <<".","x","y","z">>, (* .top *) <<".","t","o","p">>, (* .work *) <<".","w","o","r","k">> >>

commonBrands ==
    << (* paypal *) <<"p","a","y","p","a","l">>, (* google *) <<"g","o","o","g","l","e">>, (* microsoft *) <<"m","i","c","r","o","s","o","f","t">>, (* amazon *) <<"a","m","a","z","o","n">>, (* apple *) <<"a","p","p","l","e">>, (* facebook *) <<"f","a","c","e","b","o","o","k">>,
       (* netflix *) <<"n","e","t","f","l","i","x">>, (* instagram *) <<"i","n","s","t","a","g","r","a","m">> >>

suspiciousKeywords ==
    << (* login *) <<"l","o","g","i","n">>, (* verify *) <<"v","e","r","i","f","y">>, (* account *) <<"a","c","c","o","u","n","t">>, (* secure *) <<"s","e","c","u","r","e">>, (* update *) <<"u","p","d","a","t","e">>, (* confirm *) <<"c","o","n","f","i","r","m">>,
       (* banking *) <<"b","a","n","k","i","n","g">>, (* password *) <<"p","a","s","s","w","o","r","d">> >>

\* /^\d{1,3}\.\d{1,3}\.\d{1,3}\.\d{1,3}$/
IsDottedQuad(host) ==
    LET parts == split(host, ".")
    IN  /\ Len(parts) = 4
        /\ \A k \in 1..4 : AllDigits(parts[k]) /\ Len(parts[k]) <= 3

IPAddressCheck(urlHostname) ==
    IF IsDottedQuad(urlHostname)
    THEN << Hit(Indicator("IP Address", "high",
                          "URL uses IP address instead of domain name",
                          urlHostname), 25) >>
    ELSE <<>>

SuspiciousTLDCheck(urlHostname) ==
    IF \E k \in 1..Len(suspiciousTLDs) : endsWith(urlHostname, suspiciousTLDs[k])
    THEN << Hit(Indicator("Suspicious TLD", "medium",
                          "Domain uses a TLD commonly associated with phishing",
                          split(urlHostname, ".")[Len(split(urlHostname, "."))]), 15) >>
    ELSE <<>>

TyposquattingPatterns(brand) ==
    << replace(brand, (* l *) <<"l">>, (* 1 *) <<"1">>),
       replace(brand, (* o *) <<"o">>, (* 0 *) <<"0">>),
       brand \o (* - *) <<"-">>,
       brand \o (* secure *) <<"s","e","c","u","r","e">>,
       brand \o (* verify *) <<"v","e","r","i","f","y">>,
       (* secure *) <<"s","e","c","u","r","e">> \o brand >>

\* both ifs of the loop body hold for this brand
BrandMatches(brand, hostname) ==
    /\ includes(hostname, brand)
    /\ ~endsWith(hostname, brand \o (* .com *) <<".","c","o","m">>)
    /\ \E k \in 1..Len(TyposquattingPatterns(brand)) :
            includes(hostname, TyposquattingPatterns(brand)[k])

\* the loop without its break
RECURSIVE TyposquattingLoop_noBreak(_, _)
TyposquattingLoop_noBreak(brands, urlHostname) ==
    IF brands = <<>> THEN <<>>
    ELSE (IF BrandMatches(Head(brands), toLowerCase(urlHostname))
          THEN << Hit(Indicator("Typosquatting", "high",
                                "Possible typosquatting of " \o Text(Head(brands)),
                                urlHostname), 30) >>
          ELSE <<>>)
         \o TyposquattingLoop_noBreak(Tail(brands), urlHostname)

\* for (const brand of commonBrands) { ... break; }
RECURSIVE TyposquattingLoop(_, _)
TyposquattingLoop(brands, urlHostname) ==
    IF brands = <<>> THEN <<>>
    ELSE IF BrandMatches(Head(brands), toLowerCase(urlHostname))
    THEN << Hit(Indicator("Typosquatting", "high",
                          "Possible typosquatting of " \o Text(Head(brands)),
                          urlHostname), 30) >>
    ELSE TyposquattingLoop(Tail(brands), urlHostname)

TyposquattingCheck(urlHostname) == TyposquattingLoop(commonBrands, urlHostname)

ExcessiveSubdomainsCheck(urlHostname) ==
    LET subdomains == split(urlHostname, ".")
    IN  IF Len(subdomains) > 4
        THEN << Hit(Indicator("Excessive Subdomains", "medium",
                              "URL has an unusual number of subdomains",
                              numberToString(Len(subdomains)) \o (*  levels *) <<" ","l","e","v","e","l","s">>), 10) >>
        ELSE <<>>

foundKeywords(url) == filterIncluded(suspiciousKeywords, toLowerCase(url))

\* the check asking for more than two keywords
SuspiciousKeywordsCheck_moreThanTwo(url) ==
    IF Len(foundKeywords(url)) > 2
    THEN << Hit(Indicator("Suspicious Keywords", "medium",
                          "URL contains multiple security-related keywords",
                          join(foundKeywords(url), (* ,  *) <<","," ">>)), 15) >>
    ELSE <<>>

SuspiciousKeywordsCheck(url) ==
    IF Len(foundKeywords(url)) >= 2
    THEN << Hit(Indicator("Suspicious Keywords", "medium",
                          "URL contains multiple security-related keywords",
                          join(foundKeywords(url), (* ,  *) <<","," ">>)), 15) >>
    ELSE <<>>

URLObfuscationCheck(url) ==
    IF includes(url, (* @ *) <<"@">>)
    THEN << Hit(Indicator("URL Obfuscation", "high",
                          "URL contains @ symbol, potentially hiding real destination",
                          url), 25) >>
    ELSE <<>>

\* the check asking for the two keywords of the keyword check
InsecureProtocolCheck_twoKeywords(url, protocol) ==
    IF protocol = (* http: *) <<"h","t","t","p",":">> /\ Len(foundKeywords(url)) >= 2
    THEN << Hit(Indicator("Insecure Protocol", "medium",
                          "Sensitive page not using HTTPS encryption",
                          (* HTTP instead of HTTPS *) <<"H","T","T","P"," ","i","n","s","t","e","a","d"," ","o","f"," ","H","T","T","P","S">>), 10) >>
    ELSE <<>>

InsecureProtocolCheck(url, protocol) ==
    IF protocol = (* http: *) <<"h","t","t","p",":">> /\ Len(foundKeywords(url)) > 0
    THEN << Hit(Indicator("Insecure Protocol", "medium",
                          "Sensitive page not using HTTPS encryption",
                          (* HTTP instead of HTTPS *) <<"H","T","T","P"," ","i","n","s","t","e","a","d"," ","o","f"," ","H","T","T","P","S">>), 10) >>
    ELSE <<>>

InvalidURLHits ==
    << Hit(Indicator("Invalid URL", "high", "Malformed or invalid URL structure",
                     (* Failed to parse URL *) <<"F","a","i","l","e","d"," ","t","o"," ","p","a","r","s","e"," ","U","R","L">>), 20) >>

\* the checks that read the text alone running before new URL throws
URLHits_checksBeforeParse(url) ==
    LET Checks(urlObj) ==
            IF ~urlObj.ok
            THEN SuspiciousKeywordsCheck(url) \o URLObfuscationCheck(url)
                 \o InvalidURLHits
            ELSE IPAddressCheck(urlObj.hostname)
                 \o SuspiciousTLDCheck(urlObj.hostname)
                 \o TyposquattingCheck(urlObj.hostname)
                 \o ExcessiveSubdomainsCheck(urlObj.hostname)
                 \o SuspiciousKeywordsCheck(url)
                 \o URLObfuscationCheck(url)
                 \o InsecureProtocolCheck(url, urlObj.protocol)
    IN  Apply(Checks, ParseURL(url))

\* the body of the try block, and the catch block when new URL throws
URLHits(url) ==
    LET Checks(urlObj) ==
            IF ~urlObj.ok THEN InvalidURLHits
            ELSE IPAddressCheck(urlObj.hostname)
                 \o SuspiciousTLDCheck(urlObj.hostname)
                 \o TyposquattingCheck(urlObj.hostname)
                 \o ExcessiveSubdomainsCheck(urlObj.hostname)
                 \o SuspiciousKeywordsCheck(url)
                 \o URLObfuscationCheck(url)
                 \o InsecureProtocolCheck(url, urlObj.protocol)
    IN  Apply(Checks, ParseURL(url))

analyzeURL(url) ==
    LET Result(hits) == DetectionResult(hits, "url")
    IN  Apply(Result, URLHits(url))

urgencyKeywords ==
    << (* urgent *) <<"u","r","g","e","n","t">>, (* immediately *) <<"i","m","m","e","d","i","a","t","e","l","y">>, (* act now *) <<"a","c","t"," ","n","o","w">>, (* limited time *) <<"l","i","m","i","t","e","d"," ","t","i","m","e">>, (* expires today *) <<"e","x","p","i","r","e","s"," ","t","o","d","a","y">>,
       (* within 24 hours *) <<"w","i","t","h","i","n"," ","2","4"," ","h","o","u","r","s">>, (* account suspended *) <<"a","c","c","o","u","n","t"," ","s","u","s","p","e","n","d","e","d">>, (* verify now *) <<"v","e","r","i","f","y"," ","n","o","w">>, (* click here now *) <<"c","l","i","c","k"," ","h","e","r","e"," ","n","o","w">>,
       (* last chance *) <<"l","a","s","t"," ","c","h","a","n","c","e">>, (* final notice *) <<"f","i","n","a","l"," ","n","o","t","i","c","e">>, (* action required *) <<"a","c","t","i","o","n"," ","r","e","q","u","i","r","e","d">> >>

credentialKeywords ==
    << (* password *) <<"p","a","s","s","w","o","r","d">>, (* social security *) <<"s","o","c","i","a","l"," ","s","e","c","u","r","i","t","y">>, (* credit card *) <<"c","r","e","d","i","t"," ","c","a","r","d">>, (* bank account *) <<"b","a","n","k"," ","a","c","c","o","u","n","t">>,
       (* pin number *) <<"p","i","n"," ","n","u","m","b","e","r">>, (* verify your identity *) <<"v","e","r","i","f","y"," ","y","o","u","r"," ","i","d","e","n","t","i","t","y">>, (* confirm your account *) <<"c","o","n","f","i","r","m"," ","y","o","u","r"," ","a","c","c","o","u","n","t">>,
       (* update payment *) <<"u","p","d","a","t","e"," ","p","a","y","m","e","n","t">>, (* billing information *) <<"b","i","l","l","i","n","g"," ","i","n","f","o","r","m","a","t","i","o","n">> >>

authorityKeywords ==
    << (* irs *) <<"i","r","s">>, (* fbi *) <<"f","b","i">>, (* police *) <<"p","o","l","i","c","e">>, (* government *) <<"g","o","v","e","r","n","m","e","n","t">>, (* tax authority *) <<"t","a","x"," ","a","u","t","h","o","r","i","t","y">>,
       (* your bank *) <<"y","o","u","r"," ","b","a","n","k">>, (* paypal *) <<"p","a","y","p","a","l">>, (* amazon *) <<"a","m","a","z","o","n">>, (* microsoft support *) <<"m","i","c","r","o","s","o","f","t"," ","s","u","p","p","o","r","t">>,
       (* apple support *) <<"a","p","p","l","e"," ","s","u","p","p","o","r","t">>, (* google security *) <<"g","o","o","g","l","e"," ","s","e","c","u","r","i","t","y">> >>

threatKeywords ==
    << (* account will be closed *) <<"a","c","c","o","u","n","t"," ","w","i","l","l"," ","b","e"," ","c","l","o","s","e","d">>, (* legal action *) <<"l","e","g","a","l"," ","a","c","t","i","o","n">>, (* suspended *) <<"s","u","s","p","e","n","d","e","d">>, (* terminated *) <<"t","e","r","m","i","n","a","t","e","d">>,
       (* frozen *) <<"f","r","o","z","e","n">>, (* locked out *) <<"l","o","c","k","e","d"," ","o","u","t">>, (* penalty *) <<"p","e","n","a","l","t","y">>, (* fine *) <<"f","i","n","e">>, (* arrest *) <<"a","r","r","e","s","t">> >>

rewardKeywords ==
    << (* you won *) <<"y","o","u"," ","w","o","n">>, (* prize *) <<"p","r","i","z","e">>, (* lottery *) <<"l","o","t","t","e","r","y">>, (* inheritance *) <<"i","n","h","e","r","i","t","a","n","c","e">>, (* refund *) <<"r","e","f","u","n","d">>,
       (* claim your *) <<"c","l","a","i","m"," ","y","o","u","r">>, (* congratulations *) <<"c","o","n","g","r","a","t","u","l","a","t","i","o","n","s">>, (* selected winner *) <<"s","e","l","e","c","t","e","d"," ","w","i","n","n","e","r">>, (* free gift *) <<"f","r","e","e"," ","g","i","f","t">> >>

grammarIssues ==
    << (* dear customer *) <<"d","e","a","r"," ","c","u","s","t","o","m","e","r">>, (* dear user *) <<"d","e","a","r"," ","u","s","e","r">>, (* dear member *) <<"d","e","a","r"," ","m","e","m","b","e","r">>,
       (* kindly *) <<"k","i","n","d","l","y">>, (* needful *) <<"n","e","e","d","f","u","l">>, (* revert back *) <<"r","e","v","e","r","t"," ","b","a","c","k">> >>

\* urgency adding a flat 10 and high from two matches on
UrgencyCheck_flat(lowerContent) ==
    LET foundUrgency == filterIncluded(urgencyKeywords, lowerContent)
    IN  IF Len(foundUrgency) > 0
        THEN << Hit(Indicator("Urgency Tactics",
                              IF Len(foundUrgency) >= 2 THEN "high" ELSE "medium",
                              "Message uses urgency to pressure immediate action",
                              join(slice(foundUrgency, 3), (* ,  *) <<","," ">>)),
                    10) >>
        ELSE <<>>

UrgencyCheck(lowerContent) ==
    LET foundUrgency == filterIncluded(urgencyKeywords, lowerContent)
    IN  IF Len(foundUrgency) > 0
        THEN << Hit(Indicator("Urgency Tactics",
                              IF Len(foundUrgency) > 2 THEN "high" ELSE "medium",
                              "Message uses urgency to pressure immediate action",
                              join(slice(foundUrgency, 3), (* ,  *) <<","," ">>)),
                    Len(foundUrgency) * 10) >>
        ELSE <<>>

CredentialCheck(lowerContent) ==
    LET foundCredentials == filterIncluded(credentialKeywords, lowerContent)
    IN  IF Len(foundCredentials) > 0
        THEN << Hit(Indicator("Credential Request", "high",
                              "Message requests sensitive personal information",
                              join(slice(foundCredentials, 2), (* ,  *) <<","," ">>)), 25) >>
        ELSE <<>>

AuthorityCheck(lowerContent) ==
    LET foundAuthority == filterIncluded(authorityKeywords, lowerContent)
    IN  IF Len(foundAuthority) > 0
        THEN << Hit(Indicator("Authority Impersonation", "high",
                              "Claims to be from trusted authority or organization",
                              foundAuthority[1]), 20) >>
        ELSE <<>>

ThreatCheck(lowerContent) ==
    LET foundThreats == filterIncluded(threatKeywords, lowerContent)
    IN  IF Len(foundThreats) > 0
        THEN << Hit(Indicator("Threatening Language", "high",
                              "Uses threats or negative consequences to coerce action",
                              join(slice(foundThreats, 2), (* ,  *) <<","," ">>)), 20) >>
        ELSE <<>>

RewardCheck(lowerContent) ==
    LET foundRewards == filterIncluded(rewardKeywords, lowerContent)
    IN  IF Len(foundRewards) > 0
        THEN << Hit(Indicator("Too Good to Be True", "medium",
                              "Offers unrealistic rewards or prizes",
                              foundRewards[1]), 15) >>
        ELSE <<>>

\* where /https?:\/\/[^\s]+/i matches at 0-based offset i: the length of the
\* scheme part when a non-space character follows it, 0 otherwise
LinkPrefixAt(lower, i) ==
    LET n == IF MatchesAt(lower, (* https:// *) <<"h","t","t","p","s",":","/","/">>, i) THEN 8
             ELSE IF MatchesAt(lower, (* http:// *) <<"h","t","t","p",":","/","/">>, i) THEN 7 ELSE 0
    IN  IF n > 0 /\ i + n < Len(lower) /\ ~IsSpace(lower[i + n + 1]) THEN n ELSE 0

\* content.match(/https?:\/\/[^\s]+/gi) from 0-based offset `from`: a match
\* runs to the next space, and the search resumes after it
RECURSIVE matchURLs(_, _, _)
matchURLs(content_, lower, from) ==
    IF \A i \in from..(Len(lower) - 1) : LinkPrefixAt(lower, i) = 0 THEN <<>>
    ELSE LET start == CHOOSE i \in from..(Len(lower) - 1) :
                        /\ LinkPrefixAt(lower, i) > 0
                        /\ \A k \in from..(i - 1) : LinkPrefixAt(lower, k) = 0
             tail  == SubSeq(content_, start + 1, Len(content_))
             match == TakeUntil(tail, {" ", "\t", "\n", "\r"})
         IN  <<match>> \o matchURLs(content_, lower, start + Len(match))

At(s, k) == IF k \in 1..Len(s) THEN s[k] ELSE ""

\* /\d{1,3}\.\d{1,3}\.\d{1,3}\.\d{1,3}/.test(s), unanchored
ContainsDottedQuad(s) ==
    \E i \in 1..Len(s) : \E a \in 1..3 : \E b \in 1..3 :
        /\ IsDigit(s[i])
        /\ At(s, i + 1) = "."
        /\ \A k \in 1..a : IsDigit(At(s, i + 1 + k))
        /\ At(s, i + a + 2) = "."
        /\ \A k \in 1..b : IsDigit(At(s, i + a + 2 + k))
        /\ At(s, i + a + b + 3) = "."
        /\ IsDigit(At(s, i + a + b + 4))

IsSuspiciousLink(url) ==
    LET lower == toLowerCase(url)
    IN  \/ includes(lower, (* bit.ly *) <<"b","i","t",".","l","y">>)
        \/ includes(lower, (* tinyurl *) <<"t","i","n","y","u","r","l">>)
        \/ includes(lower, (* .tk *) <<".","t","k">>)
        \/ includes(lower, (* .xyz *) <<".","x","y","z">>)
        \/ ContainsDottedQuad(url)

RECURSIVE CountSuspicious(_)
CountSuspicious(urls) ==
    IF urls = <<>> THEN 0
    ELSE (IF IsSuspiciousLink(Head(urls)) THEN 1 ELSE 0) + CountSuspicious(Tail(urls))

SuspiciousLinksCheck(content_, lowerContent) ==
    LET suspicious == CountSuspicious(matchURLs(content_, lowerContent, 0))
    IN  IF suspicious > 0
        THEN << Hit(Indicator("Suspicious Links", "medium",
                              "Contains shortened or suspicious URLs",
                              numberToString(suspicious) \o (*  suspicious link(s) *) <<" ","s","u","s","p","i","c","i","o","u","s"," ","l","i","n","k","(","s",")">>), 15) >>
        ELSE <<>>

GrammarCheck(lowerContent) ==
    LET foundGrammar == filterIncluded(grammarIssues, lowerContent)
    IN  IF Len(foundGrammar) > 0
        THEN << Hit(Indicator("Generic Greeting", "low",
                              "Uses generic, impersonal greeting",
                              foundGrammar[1]), 5) >>
        ELSE <<>>

\* the threat check assigning threatScore instead of adding to it
ContentHits_threatAssigns(content_) ==
    LET lowerContent == toLowerCase(content_)
    IN  (IF ThreatCheck(lowerContent) # <<>> THEN <<>>
         ELSE UrgencyCheck(lowerContent)
              \o CredentialCheck(lowerContent)
              \o AuthorityCheck(lowerContent))
        \o ThreatCheck(lowerContent)
        \o RewardCheck(lowerContent)
        \o SuspiciousLinksCheck(content_, lowerContent)
        \o GrammarCheck(lowerContent)

ContentHits(content_) ==
    LET lowerContent == toLowerCase(content_)
    IN  UrgencyCheck(lowerContent)
        \o CredentialCheck(lowerContent)
        \o AuthorityCheck(lowerContent)
        \o ThreatCheck(lowerContent)
        \o RewardCheck(lowerContent)
        \o SuspiciousLinksCheck(content_, lowerContent)
        \o GrammarCheck(lowerContent)

analyzeContent(content_, type_) ==
    LET Result(hits) == DetectionResult(hits, type_)
    IN  Apply(Result, ContentHits(content_))

\* the pattern without its i flag
StartsWithHttp_caseSensitive(input) ==
    MatchesAt(input, (* http:// *) <<"h","t","t","p",":","/","/">>, 0) \/ MatchesAt(input, (* https:// *) <<"h","t","t","p","s",":","/","/">>, 0)

\* /^https?:\/\//i
StartsWithHttp(input) ==
    MatchesAt(toLowerCase(input), (* http:// *) <<"h","t","t","p",":","/","/">>, 0)
    \/ MatchesAt(toLowerCase(input), (* https:// *) <<"h","t","t","p","s",":","/","/">>, 0)

\* the category analyze settles on; "none" stands for an absent or empty type
CategoryOf(input, type_) ==
    IF type_ # "none" THEN type_
    ELSE IF StartsWithHttp(input) THEN "url"
    ELSE IF includes(input, (* @ *) <<"@">>) /\ includes(input, (* subject: *) <<"s","u","b","j","e","c","t",":">>) THEN "email"
    ELSE "message"

analyze(input, type_) ==
    IF CategoryOf(input, type_) = "url" THEN analyzeURL(input)
    ELSE analyzeContent(input, CategoryOf(input, type_))

(***************************************************************************)
(* Reasoner (ReasoningEngine.analyzeIntent).                               *)
(***************************************************************************)
CredentialTheft     == (* Credential Theft *) <<"C","r","e","d","e","n","t","i","a","l"," ","T","h","e","f","t">>
FinancialFraud      == (* Financial Fraud *) <<"F","i","n","a","n","c","i","a","l"," ","F","r","a","u","d">>
MalwareDistribution == (* Malware Distribution *) <<"M","a","l","w","a","r","e"," ","D","i","s","t","r","i","b","u","t","i","o","n">>
DataHarvesting      == (* Data Harvesting *) <<"D","a","t","a"," ","H","a","r","v","e","s","t","i","n","g">>
AccountTakeover     == (* Account Takeover *) <<"A","c","c","o","u","n","t"," ","T","a","k","e","o","v","e","r">>
Reconnaissance      == (* Reconnaissance *) <<"R","e","c","o","n","n","a","i","s","s","a","n","c","e">>

IntentAnalysis(intent, confidence, why) ==
    [intent |-> intent, confidence |-> confidence, reasoning |-> why]

VulnerabilityAnalysis(trigger, desc, sev) ==
    [trigger |-> trigger, description |-> desc, severity |-> sev]

\* detection.indicators.map(i => i.type).includes(t)
HasType(d, t) == \E k \in 1..Len(d.indicators) : d.indicators[k].type = t

\* detection.indicators.map(i => i.evidence?.toLowerCase() || '').join(' ')
indicatorEvidences(d) ==
    join([k \in 1..Len(d.indicators) |-> toLowerCase(d.indicators[k].evidence)], (*   *) <<" ">>)

CredentialTheftFires(d) ==
    HasType(d, "Credential Request") \/ HasType(d, "Typosquatting")

FinancialFraudFires(d) ==
    \/ includes(indicatorEvidences(d), (* bank *) <<"b","a","n","k">>)
    \/ includes(indicatorEvidences(d), (* payment *) <<"p","a","y","m","e","n","t">>)
    \/ includes(indicatorEvidences(d), (* credit card *) <<"c","r","e","d","i","t"," ","c","a","r","d">>)
    \/ HasType(d, "Too Good to Be True")

MalwareDistributionFires(d) ==
    HasType(d, "Suspicious Links") \/ HasType(d, "URL Obfuscation")

DataHarvestingFires(d) ==
    \/ HasType(d, "Authority Impersonation")
    \/ includes(indicatorEvidences(d), (* verify *) <<"v","e","r","i","f","y">>)
    \/ includes(indicatorEvidences(d), (* update *) <<"u","p","d","a","t","e">>)

AccountTakeoverFires(d) ==
    \/ includes(indicatorEvidences(d), (* suspended *) <<"s","u","s","p","e","n","d","e","d">>)
    \/ includes(indicatorEvidences(d), (* locked *) <<"l","o","c","k","e","d">>)
    \/ HasType(d, "Threatening Language")

\* the five rules as an else-if chain
RuleIntents_elseIf(d) ==
    (IF CredentialTheftFires(d)
     THEN << IntentAnalysis(CredentialTheft, 85,
        "Attempts to steal login credentials or personal information through fake login pages or direct requests") >>
     ELSE (IF FinancialFraudFires(d)
        THEN << IntentAnalysis(FinancialFraud, 80,
        "Seeks to obtain financial information or trick victims into unauthorized transactions") >>
        ELSE (IF MalwareDistributionFires(d)
        THEN << IntentAnalysis(MalwareDistribution, 70,
        "May attempt to deliver malware through suspicious links or downloads") >>
        ELSE (IF DataHarvestingFires(d)
        THEN << IntentAnalysis(DataHarvesting, 75,
        "Collects personal data by impersonating legitimate organizations") >>
        ELSE (IF AccountTakeoverFires(d)
        THEN << IntentAnalysis(AccountTakeover, 78,
        "Uses fear tactics to gain access to user accounts") >>
        ELSE <<>>)))))

\* the intents pushed by the five rules, before the fallback
RuleIntents(d) ==
    (IF CredentialTheftFires(d)
     THEN << IntentAnalysis(CredentialTheft, 85,
        "Attempts to steal login credentials or personal information through fake login pages or direct requests") >>
     ELSE <<>>)
    \o (IF FinancialFraudFires(d)
        THEN << IntentAnalysis(FinancialFraud, 80,
        "Seeks to obtain financial information or trick victims into unauthorized transactions") >>
        ELSE <<>>)
    \o (IF MalwareDistributionFires(d)
        THEN << IntentAnalysis(MalwareDistribution, 70,
        "May attempt to deliver malware through suspicious links or downloads") >>
        ELSE <<>>)
    \o (IF DataHarvestingFires(d)
        THEN << IntentAnalysis(DataHarvesting, 75,
        "Collects personal data by impersonating legitimate organizations") >>
        ELSE <<>>)
    \o (IF AccountTakeoverFires(d)
        THEN << IntentAnalysis(AccountTakeover, 78,
        "Uses fear tactics to gain access to user accounts") >>
        ELSE <<>>)

\* every rule assigning attackType unconditionally
RuleAttackType_lastWins(d) ==
    LET t0 == "Unknown"
        t1 == IF CredentialTheftFires(d) THEN "Phishing - Credential Harvesting" ELSE t0
        t2 == IF FinancialFraudFires(d) THEN "Financial Phishing" ELSE t1
        t3 == IF MalwareDistributionFires(d) THEN "Malware Delivery" ELSE t2
        t4 == IF DataHarvestingFires(d) THEN "Spear Phishing" ELSE t3
        t5 == IF AccountTakeoverFires(d) THEN "Account Compromise Attack" ELSE t4
    IN  t5

\* attackType as the five rules leave it: the first assigns unconditionally,
\* the others only while it is still 'Unknown'
RuleAttackType(d) ==
    LET t0 == "Unknown"
        t1 == IF CredentialTheftFires(d) THEN "Phishing - Credential Harvesting" ELSE t0
        t2 == IF FinancialFraudFires(d) /\ t1 = "Unknown" THEN "Financial Phishing" ELSE t1
        t3 == IF MalwareDistributionFires(d) /\ t2 = "Unknown" THEN "Malware Delivery" ELSE t2
        t4 == IF DataHarvestingFires(d) /\ t3 = "Unknown" THEN "Spear Phishing" ELSE t3
        t5 == IF AccountTakeoverFires(d) /\ t4 = "Unknown"
              THEN "Account Compromise Attack" ELSE t4
    IN  t5

\* Fear & Anxiety looking at Threatening Language alone
Vulnerabilities_fearOfThreatsOnly(d) ==
    (IF HasType(d, "Threatening Language")
     THEN << VulnerabilityAnalysis("Fear & Anxiety",
        "Exploits fear of negative consequences (account closure, legal action) to bypass rational thinking",
        "high") >>
     ELSE <<>>)
    \o (IF HasType(d, "Authority Impersonation")
        THEN << VulnerabilityAnalysis("Authority Bias",
        "Leverages trust in authority figures (banks, government) to appear legitimate",
        "high") >>
        ELSE <<>>)
    \o (IF HasType(d, "Urgency Tactics")
        THEN << VulnerabilityAnalysis("Urgency & Time Pressure",
        "Creates artificial time constraints to prevent careful evaluation",
        "medium") >>
        ELSE <<>>)
    \o (IF HasType(d, "Too Good to Be True")
        THEN << VulnerabilityAnalysis("Greed & Reward Seeking",
        "Appeals to desire for easy money or prizes to lower defenses",
        "medium") >>
        ELSE <<>>)
    \o (IF HasType(d, "Suspicious Links")
        THEN << VulnerabilityAnalysis("Curiosity",
        "Uses mysterious or intriguing links to encourage clicking without verification",
        "low") >>
        ELSE <<>>)
    \o (IF HasType(d, "Generic Greeting") \/ includes(indicatorEvidences(d), (* kindly *) <<"k","i","n","d","l","y">>)
        THEN << VulnerabilityAnalysis("Helpfulness & Compliance",
        "Exploits natural tendency to be helpful and comply with requests",
        "low") >>
        ELSE <<>>)

Vulnerabilities(d) ==
    (IF HasType(d, "Threatening Language") \/ HasType(d, "Urgency Tactics")
     THEN << VulnerabilityAnalysis("Fear & Anxiety",
        "Exploits fear of negative consequences (account closure, legal action) to bypass rational thinking",
        "high") >>
     ELSE <<>>)
    \o (IF HasType(d, "Authority Impersonation")
        THEN << VulnerabilityAnalysis("Authority Bias",
        "Leverages trust in authority figures (banks, government) to appear legitimate",
        "high") >>
        ELSE <<>>)
    \o (IF HasType(d, "Urgency Tactics")
        THEN << VulnerabilityAnalysis("Urgency & Time Pressure",
        "Creates artificial time constraints to prevent careful evaluation",
        "medium") >>
        ELSE <<>>)
    \o (IF HasType(d, "Too Good to Be True")
        THEN << VulnerabilityAnalysis("Greed & Reward Seeking",
        "Appeals to desire for easy money or prizes to lower defenses",
        "medium") >>
        ELSE <<>>)
    \o (IF HasType(d, "Suspicious Links")
        THEN << VulnerabilityAnalysis("Curiosity",
        "Uses mysterious or intriguing links to encourage clicking without verification",
        "low") >>
        ELSE <<>>)
    \o (IF HasType(d, "Generic Greeting") \/ includes(indicatorEvidences(d), (* kindly *) <<"k","i","n","d","l","y">>)
        THEN << VulnerabilityAnalysis("Helpfulness & Compliance",
        "Exploits natural tendency to be helpful and comply with requests",
        "low") >>
        ELSE <<>>)

\* detection.indicators.filter(i => i.severity === sev)
BySeverity(d, sev) == SelectSeq(d.indicators, LAMBDA i : i.severity = sev)

\* the confidence without Math.min
Confidence_uncapped(d) ==
    50 + Len(BySeverity(d, "high")) * 15 + Len(BySeverity(d, "medium")) * 8

Confidence(d) ==
    Min(95, 50 + Len(BySeverity(d, "high")) * 15 + Len(BySeverity(d, "medium")) * 8)

FallbackIntents ==
    << IntentAnalysis(Reconnaissance, 50,
        "Insufficient indicators to determine specific intent, possibly probing for vulnerabilities") >>

\* the result without the fallback
analyzeIntent_noFallback(d) ==
    [attackerIntent  |-> RuleIntents(d),
     vulnerabilities |-> Vulnerabilities(d),
     confidence      |-> Confidence(d),
     attackType      |-> RuleAttackType(d)]

\* the fallback pushed whatever the rules did
analyzeIntent_alwaysFallback(d) ==
    [attackerIntent  |-> RuleIntents(d) \o FallbackIntents,
     vulnerabilities |-> Vulnerabilities(d),
     confidence      |-> Confidence(d),
     attackType      |-> IF Len(RuleIntents(d)) = 0 THEN "Suspicious Activity"
                         ELSE RuleAttackType(d)]

\* the fallback pushing its entry without assigning attackType
analyzeIntent_unknownFallback(d) ==
    [attackerIntent  |-> IF Len(RuleIntents(d)) = 0 THEN FallbackIntents
                         ELSE RuleIntents(d),
     vulnerabilities |-> Vulnerabilities(d),
     confidence      |-> Confidence(d),
     attackType      |-> RuleAttackType(d)]

analyzeIntent(d) ==
    [attackerIntent  |-> IF Len(RuleIntents(d)) = 0 THEN FallbackIntents
                         ELSE RuleIntents(d),
     vulnerabilities |-> Vulnerabilities(d),
     confidence      |-> Confidence(d),
     attackType      |-> IF Len(RuleIntents(d)) = 0 THEN "Suspicious Activity"
                         ELSE RuleAttackType(d)]

(***************************************************************************)
(* Explainer (ExplainabilityEngine), the copy the server imports.  The     *)
(* texts are TLA+ strings; the pictographs that open some literals of the  *)
(* source are left out of them.                                            *)
(***************************************************************************)
\* the tiers with exclusive lower bounds
determineRiskLevel_exclusive(threatScore) ==
    IF threatScore > 80 THEN "Critical"
    ELSE IF threatScore > 60 THEN "High"
    ELSE IF threatScore > 40 THEN "Medium"
    ELSE IF threatScore > 20 THEN "Low"
    ELSE "Safe"

determineRiskLevel(threatScore) ==
    IF threatScore >= 80 THEN "Critical"
    ELSE IF threatScore >= 60 THEN "High"
    ELSE IF threatScore >= 40 THEN "Medium"
    ELSE IF threatScore >= 20 THEN "Low"
    ELSE "Safe"

\* the second copy of the Explainer
determineRiskLevel_part001(threatScore) ==
    IF threatScore >= 80 THEN "Critical"
    ELSE IF threatScore >= 60 THEN "High"
    ELSE IF threatScore >= 40 THEN "Medium"
    ELSE IF threatScore >= 20 THEN "Low"
    ELSE "Safe"

\* Array.prototype.join on TLA+ strings
RECURSIVE JoinText(_, _)
JoinText(list, sep) ==
    IF list = <<>> THEN ""
    ELSE IF Len(list) = 1 THEN list[1]
    ELSE list[1] \o sep \o JoinText(Tail(list), sep)

\* the fixed sentence given for Low in place of Safe
generateSummary_fixedForLow(d, r, riskLevel) ==
    IF riskLevel = "Low"
    THEN "No significant threats detected. This appears to be legitimate content."
    ELSE LET primaryIntent ==
                 IF Len(r.attackerIntent) > 0 /\ r.attackerIntent[1].intent # <<>>
                 THEN r.attackerIntent[1].intent ELSE (* malicious activity *) <<"m","a","l","i","c","i","o","u","s"," ","a","c","t","i","v","i","t","y">>
             indicatorCount == Len(d.indicators)
         IN  riskLevel \o " Risk Detected: This appears to be a " \o r.attackType
             \o " attempt. Identified " \o Text(numberToString(indicatorCount))
             \o " suspicious indicator" \o (IF indicatorCount # 1 THEN "s" ELSE "")
             \o " suggesting " \o Text(toLowerCase(primaryIntent)) \o "."

generateSummary(d, r, riskLevel) ==
    IF riskLevel = "Safe"
    THEN "No significant threats detected. This appears to be legitimate content."
    ELSE LET primaryIntent ==
                 IF Len(r.attackerIntent) > 0 /\ r.attackerIntent[1].intent # <<>>
                 THEN r.attackerIntent[1].intent ELSE (* malicious activity *) <<"m","a","l","i","c","i","o","u","s"," ","a","c","t","i","v","i","t","y">>
             indicatorCount == Len(d.indicators)
         IN  riskLevel \o " Risk Detected: This appears to be a " \o r.attackType
             \o " attempt. Identified " \o Text(numberToString(indicatorCount))
             \o " suspicious indicator" \o (IF indicatorCount # 1 THEN "s" ELSE "")
             \o " suggesting " \o Text(toLowerCase(primaryIntent)) \o "."

generateDetailedAnalysis(d, r) ==
    LET highSeverity   == BySeverity(d, "high")
        mediumSeverity == BySeverity(d, "medium")
        lowSeverity    == BySeverity(d, "low")
        TypeAndDescription(list) ==
            JoinText([k \in 1..Len(list) |->
                        list[k].type \o " - " \o list[k].description], " | ")
    IN  << "**Threat Score: " \o Text(numberToString(d.threatScore)) \o "/100** - "
           \o "This score is calculated based on "
           \o Text(numberToString(Len(d.indicators))) \o " detected indicators, "
           \o "weighted by their severity levels." >>
        \o (IF Len(r.attackerIntent) > 0
            THEN << "**Attacker Intent**: "
                    \o JoinText([k \in 1..Len(r.attackerIntent) |->
                          Text(r.attackerIntent[k].intent) \o " ("
                          \o Text(numberToString(r.attackerIntent[k].confidence))
                          \o "% confidence)"], ", ")
                    \o ". " \o r.attackerIntent[1].reasoning >>
            ELSE <<>>)
        \o (IF Len(r.vulnerabilities) > 0
            THEN << "**Psychological Tactics**: This attack exploits human vulnerabilities: "
                    \o JoinText([k \in 1..Len(r.vulnerabilities) |->
                          "**" \o r.vulnerabilities[k].trigger \o "**: "
                          \o r.vulnerabilities[k].description], " | ") >>
            ELSE <<>>)
        \o (IF Len(highSeverity) > 0
            THEN << "**Critical Indicators (" \o Text(numberToString(Len(highSeverity)))
                    \o ")**: " \o TypeAndDescription(highSeverity) >>
            ELSE <<>>)
        \o (IF Len(mediumSeverity) > 0
            THEN << "**Warning Signs (" \o Text(numberToString(Len(mediumSeverity)))
                    \o ")**: " \o TypeAndDescription(mediumSeverity) >>
            ELSE <<>>)
        \o (IF Len(lowSeverity) > 0
            THEN << "**Minor Concerns (" \o Text(numberToString(Len(lowSeverity)))
                    \o ")**: "
                    \o JoinText([k \in 1..Len(lowSeverity) |-> lowSeverity[k].type], ", ") >>
            ELSE <<>>)

HasIntent(r, intent) ==
    \E k \in 1..Len(r.attackerIntent) : r.attackerIntent[k].intent = intent

HasTrigger(r, trigger) ==
    \E k \in 1..Len(r.vulnerabilities) : r.vulnerabilities[k].trigger = trigger

\* the general line pushed whatever the tier
generateRecommendations_alwaysGeneral(d, r, riskLevel) ==
    (IF riskLevel = "Critical" \/ riskLevel = "High"
     THEN << "**DO NOT** interact with this content or click any links",
             "Delete this message immediately" >>
          \o (IF d.category = "email"
              THEN << "Report as phishing to your email provider",
                      "If you clicked any links, change your passwords immediately" >>
              ELSE <<>>)
          \o (IF HasType(d, "Credential Request")
              THEN << "Never entered credentials? Good! If you did, change passwords NOW" >>
              ELSE <<>>)
     ELSE <<>>)
    \o (IF riskLevel = "Medium"
        THEN << "Exercise extreme caution with this content",
                "Verify the sender through official channels before responding",
                "Do not click links or download attachments" >>
        ELSE <<>>)
    \o (IF riskLevel = "Low"
        THEN << "Be cautious and verify the source independently",
                "Hover over links to check actual destinations before clicking" >>
        ELSE <<>>)
    \o (IF HasIntent(r, CredentialTheft)
        THEN << "Enable two-factor authentication on all important accounts" >>
        ELSE <<>>)
    \o (IF HasIntent(r, FinancialFraud)
        THEN << "Monitor your bank statements for unauthorized transactions" >>
        ELSE <<>>)
    \o (IF HasTrigger(r, "Fear & Anxiety")
        THEN << "Take a moment to verify - legitimate organizations don't create panic" >>
        ELSE <<>>)
    \o (IF HasTrigger(r, "Authority Bias")
        THEN << "Contact the organization directly using official contact information" >>
        ELSE <<>>)
    \o << "Educate yourself and others about these tactics to stay protected" >>

generateRecommendations(d, r, riskLevel) ==
    (IF riskLevel = "Critical" \/ riskLevel = "High"
     THEN << "**DO NOT** interact with this content or click any links",
             "Delete this message immediately" >>
          \o (IF d.category = "email"
              THEN << "Report as phishing to your email provider",
                      "If you clicked any links, change your passwords immediately" >>
              ELSE <<>>)
          \o (IF HasType(d, "Credential Request")
              THEN << "Never entered credentials? Good! If you did, change passwords NOW" >>
              ELSE <<>>)
     ELSE <<>>)
    \o (IF riskLevel = "Medium"
        THEN << "Exercise extreme caution with this content",
                "Verify the sender through official channels before responding",
                "Do not click links or download attachments" >>
        ELSE <<>>)
    \o (IF riskLevel = "Low"
        THEN << "Be cautious and verify the source independently",
                "Hover over links to check actual destinations before clicking" >>
        ELSE <<>>)
    \o (IF HasIntent(r, CredentialTheft)
        THEN << "Enable two-factor authentication on all important accounts" >>
        ELSE <<>>)
    \o (IF HasIntent(r, FinancialFraud)
        THEN << "Monitor your bank statements for unauthorized transactions" >>
        ELSE <<>>)
    \o (IF HasTrigger(r, "Fear & Anxiety")
        THEN << "Take a moment to verify - legitimate organizations don't create panic" >>
        ELSE <<>>)
    \o (IF HasTrigger(r, "Authority Bias")
        THEN << "Contact the organization directly using official contact information" >>
        ELSE <<>>)
    \o (IF riskLevel # "Safe"
        THEN << "Educate yourself and others about these tactics to stay protected" >>
        ELSE <<>>)

\* the second copy of generateRecommendations
generateRecommendations_part001(d, r, riskLevel) ==
    (IF riskLevel = "Critical" \/ riskLevel = "High"
     THEN << "SECURITY ALERT: DO NOT interact with this content or click any links",
             "Immediate action required: Delete this message" >>
          \o (IF d.category = "email"
              THEN << "Report as phishing to your email provider or IT security",
                      "If links were accessed, initiate password reset protocols immediately" >>
              ELSE <<>>)
          \o (IF HasType(d, "Credential Request")
              THEN << "System Warning: Do not provide credentials. If already provided, reset immediately." >>
              ELSE <<>>)
     ELSE <<>>)
    \o (IF riskLevel = "Medium"
        THEN << "Security Notice: Exercise extreme caution with this content",
                "Verification Required: Confirm sender identity via official channels",
                "Access Restricted: Do not click links or download attachments" >>
        ELSE <<>>)
    \o (IF riskLevel = "Low"
        THEN << "Observation: Verify the source independently",
                "Validation: Inspect link destinations (hover) before interaction" >>
        ELSE <<>>)
    \o (IF HasIntent(r, CredentialTheft)
        THEN << "Action Required: Enable two-factor authentication (2FA) immediately" >>
        ELSE <<>>)
    \o (IF HasIntent(r, FinancialFraud)
        THEN << "Action Required: Monitor financial statements for unauthorized activity" >>
        ELSE <<>>)
    \o (IF HasTrigger(r, "Fear & Anxiety")
        THEN << "Analysis Note: Legitimate organizations do not utilize panic-inducing tactics" >>
        ELSE <<>>)
    \o (IF HasTrigger(r, "Authority Bias")
        THEN << "Procedure: Contact the organization directly via official verified channels" >>
        ELSE <<>>)
    \o (IF riskLevel # "Safe"
        THEN << "Educate yourself and others about these tactics to stay protected" >>
        ELSE <<>>)

TechnicalDetail(category, findings) == [category |-> category, findings |-> findings]

generateTechnicalDetails(d, r) ==
    LET Findings(list) ==
            [k \in 1..Len(list) |->
                list[k].type \o ": " \o list[k].description
                \o (IF list[k].evidence # <<>>
                    THEN " (" \o Text(list[k].evidence) \o ")" ELSE "")]
        Bucket(sev, title) ==
            IF Len(BySeverity(d, sev)) > 0
            THEN << TechnicalDetail(title, Findings(BySeverity(d, sev))) >>
            ELSE <<>>
    IN  Bucket("high", "High Severity Indicators")
        \o Bucket("medium", "Medium Severity Indicators")
        \o Bucket("low", "Low Severity Indicators")
        \o (IF Len(r.attackerIntent) > 0
            THEN << TechnicalDetail("Attacker Intent Analysis",
                      [k \in 1..Len(r.attackerIntent) |->
                          Text(r.attackerIntent[k].intent) \o " ("
                          \o Text(numberToString(r.attackerIntent[k].confidence))
                          \o "% confidence): " \o r.attackerIntent[k].reasoning]) >>
            ELSE <<>>)
        \o (IF Len(r.vulnerabilities) > 0
            THEN << TechnicalDetail("Exploited Vulnerabilities",
                      [k \in 1..Len(r.vulnerabilities) |->
                          r.vulnerabilities[k].trigger \o " ["
                          \o r.vulnerabilities[k].severity \o "]: "
                          \o r.vulnerabilities[k].description]) >>
            ELSE <<>>)
        \o << TechnicalDetail("Attack Classification",
                << "Type: " \o r.attackType,
                   "Category: " \o d.category,
                   "Overall Confidence: " \o Text(numberToString(r.confidence)) \o "%",
                   "Phishing Detected: " \o (IF d.isPhishing THEN "Yes" ELSE "No") >>) >>

generateExplanation(d, r) ==
    [summary          |-> generateSummary(d, r, determineRiskLevel(d.threatScore)),
     riskLevel        |-> determineRiskLevel(d.threatScore),
     detailedAnalysis |-> generateDetailedAnalysis(d, r),
     recommendations  |-> generateRecommendations(d, r, determineRiskLevel(d.threatScore)),
     technicalDetails |-> generateTechnicalDetails(d, r)]

(***************************************************************************)
(* The inputs.  A URL is a scheme, an authority and a path; a message is   *)
(* an opening followed by phrases, each of which trips one content check.  *)
(***************************************************************************)
Types == {"none", "url", "email", "message"}

Schemes == << (* http:// *) <<"h","t","t","p",":","/","/">>, (* https:// *) <<"h","t","t","p","s",":","/","/">>, <<>> >>

Hosts ==
    << (* 192.168.1.1 *) <<"1","9","2",".","1","6","8",".","1",".","1">>,
       (* 1.2.3.999 *) <<"1",".","2",".","3",".","9","9","9">>,
       (* g00gle-secure.xyz *) <<"g","0","0","g","l","e","-","s","e","c","u","r","e",".","x","y","z">>,
       (* paypal.com *) <<"p","a","y","p","a","l",".","c","o","m">>,
       (* paypa1-secure.tk *) <<"p","a","y","p","a","1","-","s","e","c","u","r","e",".","t","k">>,
       (* www.google.com.evil.ml *) <<"w","w","w",".","g","o","o","g","l","e",".","c","o","m",".","e","v","i","l",".","m","l">>,
       (* google.amazon-pay.ml *) <<"g","o","o","g","l","e",".","a","m","a","z","o","n","-","p","a","y",".","m","l">>,
       (* www.Amazon.example.org *) <<"w","w","w",".","A","m","a","z","o","n",".","e","x","a","m","p","l","e",".","o","r","g">>,
       (* a.b.c.google-paypal-secure.tk *) <<"a",".","b",".","c",".","g","o","o","g","l","e","-","p","a","y","p","a","l","-","s","e","c","u","r","e",".","t","k">>,
       (* user@paypal-verify.top *) <<"u","s","e","r","@","p","a","y","p","a","l","-","v","e","r","i","f","y",".","t","o","p">>,
       (* secure-login.example.work *) <<"s","e","c","u","r","e","-","l","o","g","i","n",".","e","x","a","m","p","l","e",".","w","o","r","k">>,
       (* bad host.com *) <<"b","a","d"," ","h","o","s","t",".","c","o","m">> >>

Paths ==
    << <<>>, (* /login *) <<"/","l","o","g","i","n">>, (* /verify-account?user=victim@email.com *) <<"/","v","e","r","i","f","y","-","a","c","c","o","u","n","t","?","u","s","e","r","=","v","i","c","t","i","m","@","e","m","a","i","l",".","c","o","m">>, (* /update/banking *) <<"/","u","p","d","a","t","e","/","b","a","n","k","i","n","g">> >>

Urls ==
    { Schemes[s] \o Hosts[h] \o Paths[p] :
        s \in 1..Len(Schemes), h \in 1..Len(Hosts), p \in 1..Len(Paths) }
    \cup { (* HTTPS://Secure.Example.work/Login *) <<"H","T","T","P","S",":","/","/","S","e","c","u","r","e",".","E","x","a","m","p","l","e",".","w","o","r","k","/","L","o","g","i","n">>, (* HTTP://paypal.com/login *) <<"H","T","T","P",":","/","/","p","a","y","p","a","l",".","c","o","m","/","l","o","g","i","n">>,
           (* https://paypal.com/kindly@reply *) <<"h","t","t","p","s",":","/","/","p","a","y","p","a","l",".","c","o","m","/","k","i","n","d","l","y","@","r","e","p","l","y">> }

Openings ==
    { <<>>,
      (* Hi, just checking in about lunch tomorrow. *) <<"H","i",","," ","j","u","s","t"," ","c","h","e","c","k","i","n","g"," ","i","n"," ","a","b","o","u","t"," ","l","u","n","c","h"," ","t","o","m","o","r","r","o","w",".">>,
      (* subject: hello user@example.com *) <<"s","u","b","j","e","c","t",":"," ","h","e","l","l","o"," ","u","s","e","r","@","e","x","a","m","p","l","e",".","c","o","m">>,
      (* URGENT: verify your identity, your account has been suspended http://bit.ly/x *) <<"U","R","G","E","N","T",":"," ","v","e","r","i","f","y"," ","y","o","u","r"," ","i","d","e","n","t","i","t","y",","," ","y","o","u","r"," ","a","c","c","o","u","n","t"," ","h","a","s"," ","b","e","e","n"," ","s","u","s","p","e","n","d","e","d"," ","h","t","t","p",":","/","/","b","i","t",".","l","y","/","x">> }

Phrases ==
    << (* URGENT: final notice, action required, last chance *) <<"U","R","G","E","N","T",":"," ","f","i","n","a","l"," ","n","o","t","i","c","e",","," ","a","c","t","i","o","n"," ","r","e","q","u","i","r","e","d",","," ","l","a","s","t"," ","c","h","a","n","c","e">>,
       (* act now, click here immediately *) <<"a","c","t"," ","n","o","w",","," ","c","l","i","c","k"," ","h","e","r","e"," ","i","m","m","e","d","i","a","t","e","l","y">>,
       (* verify your identity *) <<"v","e","r","i","f","y"," ","y","o","u","r"," ","i","d","e","n","t","i","t","y">>,
       (* your password *) <<"y","o","u","r"," ","p","a","s","s","w","o","r","d">>,
       (* social security and credit card *) <<"s","o","c","i","a","l"," ","s","e","c","u","r","i","t","y"," ","a","n","d"," ","c","r","e","d","i","t"," ","c","a","r","d">>,
       (* your bank account *) <<"y","o","u","r"," ","b","a","n","k"," ","a","c","c","o","u","n","t">>,
       (* account has been suspended *) <<"a","c","c","o","u","n","t"," ","h","a","s"," ","b","e","e","n"," ","s","u","s","p","e","n","d","e","d">>,
       (* you won *) <<"y","o","u"," ","w","o","n">>,
       (* http://bit.ly/x *) <<"h","t","t","p",":","/","/","b","i","t",".","l","y","/","x">>,
       (* kindly *) <<"k","i","n","d","l","y">> >>

\* the most phrases a message is composed of
MaxPhrases == 3

\* the phrases a text contains
PhrasesIn(text) == { k \in 1..Len(Phrases) : includes(text, Phrases[k]) }

\* text followed by one more phrase
WithPhrase(text, k) ==
    IF text = <<>> THEN Phrases[k] ELSE text \o (*   *) <<" ">> \o Phrases[k]

(***************************************************************************)
(* The pipeline on its own: analyze, analyzeIntent and generateExplanation *)
(* applied to an input, and applied again to the input with one more       *)
(* phrase.                                                                 *)
(***************************************************************************)
PipelineInit ==
    /\ content \in Urls \cup Openings
    /\ type \in Types
    /\ detection = NoValue
    /\ reasoning = NoValue
    /\ explanation = NoValue
    /\ status = 0
    /\ clock = 0
    /\ attacks = <<>>
    /\ lastId = 0
    /\ initialized = FALSE
    /\ message = ""
    /\ manager = "server"
    /\ db = 0
    /\ file = NoValue
    /\ calls = <<>>
    /\ inputType = "url"
    /\ clientAttacks = <<>>

RunPipeline(input, type_) ==
    /\ content' = input
    /\ type' = type_
    /\ detection' = analyze(input, type_)
    /\ reasoning' = analyzeIntent(detection')
    /\ explanation' = generateExplanation(detection', reasoning')

Analyze ==
    /\ detection = NoValue
    /\ RunPipeline(content, type)
    /\ UNCHANGED <<status, clock, attacks, lastId, initialized>>
    /\ UNCHANGED storeVars

Extend(k) ==
    /\ detection # NoValue
    /\ content \notin Urls
    /\ Cardinality(PhrasesIn(content)) < MaxPhrases
    /\ \A j \in PhrasesIn(content) : j < k
    /\ RunPipeline(WithPhrase(content, k), type)
    /\ UNCHANGED <<status, clock, attacks, lastId, initialized>>
    /\ UNCHANGED storeVars

PipelineNext ==
    \/ Analyze
    \/ \E k \in 1..Len(Phrases) : Extend(k)

SpecPipeline == PipelineInit /\ [][PipelineNext]_vars

(***************************************************************************)
(* The Explainer on its own: generateExplanation applied to a detection    *)
(* of every threat score.                                                  *)
(***************************************************************************)
ScoredDetection(score) ==
    [isPhishing  |-> score >= PhishingThreshold,
     threatScore |-> score,
     indicators  |-> <<>>,
     category    |-> "message"]

RiskInit ==
    /\ content = <<>>
    /\ type = "message"
    /\ detection \in { ScoredDetection(score) : score \in 0..MaxThreatScore }
    /\ reasoning = NoValue
    /\ explanation = NoValue
    /\ status = 0
    /\ clock = 0
    /\ attacks = <<>>
    /\ lastId = 0
    /\ initialized = FALSE
    /\ message = ""
    /\ manager = "server"
    /\ db = 0
    /\ file = NoValue
    /\ calls = <<>>
    /\ inputType = "url"
    /\ clientAttacks = <<>>

Explain ==
    /\ explanation = NoValue
    /\ reasoning' = analyzeIntent(detection)
    /\ explanation' = generateExplanation(detection, reasoning')
    /\ UNCHANGED <<content, type, detection, status, clock, attacks, lastId,
                   initialized>>
    /\ UNCHANGED storeVars

RiskNext == Explain

SpecRisk == RiskInit /\ [][RiskNext]_vars

(***************************************************************************)
(* The server: POST /api/analyze in front of the attack store.             *)
(***************************************************************************)
\* the stored prefix of the submitted content
StoredLength == 500

Padding(n) == [k \in 1..n |-> "."]

\* request bodies; an empty content stands for a body without content
Requests ==
    { [content |-> <<>>, type |-> "none"],
      [content |-> (* Hi, just checking in about lunch tomorrow. *) <<"H","i",","," ","j","u","s","t"," ","c","h","e","c","k","i","n","g"," ","i","n"," ","a","b","o","u","t"," ","l","u","n","c","h"," ","t","o","m","o","r","r","o","w",".">>, type |-> "none"],
      [content |-> (* you won *) <<"y","o","u"," ","w","o","n">>, type |-> "message"],
      [content |-> (* subject: hello user@example.com kindly *) <<"s","u","b","j","e","c","t",":"," ","h","e","l","l","o"," ","u","s","e","r","@","e","x","a","m","p","l","e",".","c","o","m"," ","k","i","n","d","l","y">>, type |-> "none"],
      [content |-> (* bad host.com *) <<"b","a","d"," ","h","o","s","t",".","c","o","m">>, type |-> "url"],
      [content |-> (* https://g00gle-secure.xyz/login *) <<"h","t","t","p","s",":","/","/","g","0","0","g","l","e","-","s","e","c","u","r","e",".","x","y","z","/","l","o","g","i","n">>, type |-> "none"],
      [content |-> (* http://a.b.c.google-paypal-secure.tk/verify-account?user=victim@email.com *) <<"h","t","t","p",":","/","/","a",".","b",".","c",".","g","o","o","g","l","e","-","p","a","y","p","a","l","-","s","e","c","u","r","e",".","t","k","/","v","e","r","i","f","y","-","a","c","c","o","u","n","t","?","u","s","e","r","=","v","i","c","t","i","m","@","e","m","a","i","l",".","c","o","m">>,
       type |-> "none"],
      [content |-> (* URGENT: confirm your password  *) <<"U","R","G","E","N","T",":"," ","c","o","n","f","i","r","m"," ","y","o","u","r"," ","p","a","s","s","w","o","r","d"," ">> \o Padding(StoredLength),
       type |-> "email"] }

\* the most records the store holds, and the latest time of a request
MaxRecords == 2
MaxClock == 2

\* JSON.stringify({attackType, riskLevel, indicators})
JSONstringify(attackType, riskLevel, indicators) ==
    "{\"attackType\":\"" \o attackType \o "\",\"riskLevel\":\"" \o riskLevel
        \o "\",\"indicators\":" \o Text(numberToString(indicators)) \o "}"

\* the threshold as an exclusive bound
ShouldSave_exclusive(d) == d.threatScore > 20

\* if (detection.threatScore >= 20)
ShouldSave(d) == d.threatScore >= 20

\* the table a new Database object holds: that of attacks.db when the
\* server finds the file, an empty one otherwise
Opened ==
    IF manager = "server" /\ file # NoValue THEN file
    ELSE [rows |-> <<>>, lastId |-> 0]

\* the table behind this.db once initialize() has returned
Store == IF initialized THEN [rows |-> attacks, lastId |-> lastId] ELSE Opened

\* initialize() run to its end, and save() after a change of the table
Written(rows, last) ==
    /\ initialized' = TRUE
    /\ db' = IF initialized THEN db ELSE db + 1
    /\ attacks' = rows
    /\ lastId' = last
    /\ file' = IF manager = "server" THEN [rows |-> rows, lastId |-> last] ELSE file

\* INSERT INTO attacks, after initialize()
saveAttack(record) ==
    Written(Append(Store.rows,
                [id              |-> Store.lastId + 1,
                 timestamp       |-> record.timestamp,
                 type            |-> record.type,
                 content         |-> record.content,
                 threat_score    |-> record.threat_score,
                 analysis_result |-> record.analysis_result]),
            Store.lastId + 1)

\* DELETE FROM attacks WHERE id = ?, after initialize()
deleteAttack(id) ==
    Written(SelectSeq(Store.rows, LAMBDA row : row.id # id), Store.lastId)

\* the value deleteAttack resolves to
deleteAttackResult(id) == TRUE

Init ==
    /\ content = <<>>
    /\ type = "none"
    /\ detection = NoValue
    /\ reasoning = NoValue
    /\ explanation = NoValue
    /\ status = 0
    /\ clock = 0
    /\ attacks = <<>>
    /\ lastId = 0
    /\ initialized = FALSE
    /\ message = ""
    /\ manager = "server"
    /\ db = 0
    /\ file = NoValue
    /\ calls = <<>>
    /\ inputType = "url"
    /\ clientAttacks = <<>>

\* the three stages on a request body (lines 24 to 30 of the handler)
Pipeline(body) ==
    LET Reasoned(d) ==
            LET Explained(r) ==
                    [detection   |-> d,
                     reasoning   |-> r,
                     explanation |-> generateExplanation(d, r)]
            IN  Apply(Explained, analyzeIntent(d))
    IN  Apply(Reasoned, analyze(body.content, body.type))

\* the stages are pure: their results on the request bodies, computed once
Results == [body \in Requests \ {[content |-> <<>>, type |-> "none"]} |-> Pipeline(body)]

\* app.post('/api/analyze'), answered at time now
PostAnalyze(body, now) ==
    /\ Len(attacks) < MaxRecords
    /\ now <= MaxClock
    /\ clock' = now
    /\ IF body.content = <<>>
       THEN /\ status' = 400
            /\ content' = body.content
            /\ type' = body.type
            /\ detection' = NoValue
            /\ reasoning' = NoValue
            /\ explanation' = NoValue
            /\ message' = "Content is required"
            /\ UNCHANGED <<attacks, lastId, initialized, db, file>>
       ELSE /\ status' = 200
            /\ message' = ""
            /\ content' = body.content
            /\ type' = body.type
            /\ detection' = Results[body].detection
            /\ reasoning' = Results[body].reasoning
            /\ explanation' = Results[body].explanation
            /\ IF ShouldSave(detection')
               THEN saveAttack([timestamp       |-> now,
                                type            |-> detection'.category,
                                content         |-> substring(body.content, StoredLength),
                                threat_score    |-> detection'.threatScore,
                                analysis_result |->
                                    JSONstringify(reasoning'.attackType,
                                                  explanation'.riskLevel,
                                                  Len(detection'.indicators))])
               ELSE UNCHANGED <<attacks, lastId, initialized, db, file>>
    /\ UNCHANGED <<manager, calls>>

Next ==
    /\ \E body \in Requests, now \in {clock, clock + 1} : PostAnalyze(body, now)
    /\ UNCHANGED panelVars

Spec == Init /\ [][Next]_vars

(***************************************************************************)
(* The server with its DELETE endpoint beside POST /api/analyze.           *)
(***************************************************************************)
\* the ids the table hands out before the requests stop
MaxIds == 3

\* app.delete('/api/history/:id') with a numeric id
DeleteHistory(id) ==
    /\ deleteAttack(id)
    /\ IF deleteAttackResult(id)
       THEN status' = 200 /\ message' = "Attack record deleted"
       ELSE status' = 404 /\ message' = "Attack record not found"
    /\ UNCHANGED <<content, type, detection, reasoning, explanation, clock,
                   manager, calls>>
    /\ UNCHANGED panelVars

HistoryNext ==
    \/ /\ \E body \in Requests, now \in {clock, clock + 1} :
             Store.lastId < MaxIds /\ PostAnalyze(body, now)
       /\ UNCHANGED panelVars
    \/ \E id \in 1..MaxIds : DeleteHistory(id)

SpecHistory == Init /\ [][HistoryNext]_vars

(***************************************************************************)
(* AnalysisPanel in front of the server: the selected content type, the    *)
(* Analyze button and the copy of the record kept in the browser.          *)
(***************************************************************************)
\* the texts typed into the panel
PanelInputs ==
    { (*    *) <<" "," ">> } \cup { body.content : body \in { r \in Requests : r.type = "none" } }

\* the radio buttons: setInputType
SelectType(selected) ==
    /\ inputType' = selected
    /\ UNCHANGED <<content, type, detection, reasoning, explanation, status, clock,
                   attacks, lastId, initialized, message, manager, db, file, calls,
                   clientAttacks>>

\* handleAnalyze with the text of the input box, answered at time now
handleAnalyze(input, now) ==
    IF Trim(input) = <<>>
    THEN UNCHANGED vars
    ELSE /\ PostAnalyze([content |-> input, type |-> "none"], now)
         /\ clientAttacks' =
               IF status' = 200 /\ detection'.threatScore >= 20
               THEN Append(clientAttacks,
                       [id              |-> Len(clientAttacks) + 1,
                        timestamp       |-> now,
                        type            |-> detection'.category,
                        content         |-> substring(input, StoredLength),
                        threat_score    |-> detection'.threatScore,
                        analysis_result |-> [detection   |-> detection',
                                             reasoning   |-> reasoning',
                                             explanation |-> explanation',
                                             timestamp   |-> now]])
               ELSE clientAttacks
         /\ UNCHANGED inputType

PanelNext ==
    \/ \E selected \in {"url", "email", "message"} : SelectType(selected)
    \/ \E input \in PanelInputs, now \in {clock, clock + 1} : handleAnalyze(input, now)

SpecPanel == Init /\ [][PanelNext]_vars

(***************************************************************************)
(* The store managers under overlapping calls.  A call runs initialize()   *)
(* up to its await of initSqlJs, or to its return when initialized is set; *)
(* the rest of initialize() and the body of the operation run later, each  *)
(* in one piece, in any order the promises allow.                          *)
(***************************************************************************)
\* the calls made before the page or the server is left alone
MaxCalls == 3

\* the analysis objects a record carries
Analyses ==
    { [attackType |-> "Suspicious Activity", riskLevel |-> "Low", indicators |-> 1],
      [attackType |-> "Financial Phishing", riskLevel |-> "High", indicators |-> 3] }

\* JSON.stringify of an analysis object
Stringified(analysis) ==
    JSONstringify(analysis.attackType, analysis.riskLevel, analysis.indicators)

\* JSON.parse of a stored analysis_result
JSONparse(text) == CHOOSE analysis \in Analyses : Stringified(analysis) = text

Record(timestamp, type_, score, analysis) ==
    [timestamp       |-> timestamp,
     type            |-> type_,
     content         |-> (* x *) <<"x">>,
     threat_score    |-> score,
     analysis_result |-> analysis]

\* the records handed to saveAttack, analysis_result an object
ClientRecords ==
    { Record(1, "url", 21, CHOOSE a \in Analyses : a.riskLevel = "Low"),
      Record(2, "email", 70, CHOOSE a \in Analyses : a.riskLevel = "High") }

\* attacks.db left behind by an earlier run of the server
ExistingFile ==
    [rows   |-> << [id |-> 1] @@ Record(0, "url", 45, Stringified(CHOOSE a \in Analyses : a.riskLevel = "Low")) >>,
     lastId |-> 1]

RECURSIVE SumScores(_)
SumScores(rows) ==
    IF rows = <<>> THEN 0 ELSE rows[1].threat_score + SumScores(Tail(rows))

\* the average cut down instead of rounded
getStats_floor ==
    LET rows == Store.rows
    IN  [totalAttacks       |-> Len(rows),
         averageThreatScore |->
             IF Len(rows) = 0 THEN 0 ELSE SumScores(rows) \div Len(rows),
         highThreatCount    |->
             Len(SelectSeq(rows, LAMBDA row : row.threat_score >= 70))]

\* getStats after initialize(): COUNT(*), AVG(threat_score) and the count
\* from 70, each || 0
getStats ==
    LET rows == Store.rows
    IN  [totalAttacks       |-> Len(rows),
         averageThreatScore |->
             \* Math.round of the quotient, halves upwards
             IF Len(rows) = 0 THEN 0
             ELSE (2 * SumScores(rows) + Len(rows)) \div (2 * Len(rows)),
         highThreatCount    |->
             Len(SelectSeq(rows, LAMBDA row : row.threat_score >= 70))]

\* the row as getAllAttacks returns it: the client parses analysis_result
Returned(row) ==
    IF manager = "client"
    THEN [row EXCEPT !.analysis_result = JSONparse(row.analysis_result)]
    ELSE row

\* SELECT * FROM attacks ORDER BY timestamp DESC: every order of the rows
\* that descends by timestamp
getAllAttacks ==
    LET rows == Store.rows
        n == Len(rows)
    IN  { [k \in 1..n |-> Returned(rows[p[k]])] :
            p \in { q \in Permutations(1..n) :
                      \A j, k \in 1..n :
                          j < k => rows[q[j]].timestamp >= rows[q[k]].timestamp } }

StoreInit ==
    /\ content = <<>>
    /\ type = "none"
    /\ detection = NoValue
    /\ reasoning = NoValue
    /\ explanation = NoValue
    /\ status = 0
    /\ clock = 0
    /\ attacks = <<>>
    /\ lastId = 0
    /\ initialized = FALSE
    /\ message = ""
    /\ manager \in {"server", "client"}
    /\ db = 0
    /\ file \in IF manager = "server" THEN {NoValue, ExistingFile} ELSE {NoValue}
    /\ calls = <<>>
    /\ inputType = "url"
    /\ clientAttacks = <<>>

analysisVars ==
    <<content, type, detection, reasoning, explanation, status, clock, message,
      inputType, clientAttacks>>

\* an operation is called: initialize() runs to its first await or returns
Start(op, arg) ==
    /\ Len(calls) < MaxCalls
    /\ calls' = Append(calls,
            [op |-> op, arg |-> arg,
             pc |-> IF initialized THEN "ready" ELSE "loading",
             result |-> NoValue])
    /\ UNCHANGED <<attacks, lastId, initialized, manager, db, file>>
    /\ UNCHANGED analysisVars

\* initSqlJs has resolved for call c: the rest of initialize()
Loaded(c) ==
    /\ calls[c].pc = "loading"
    /\ db' = db + 1
    /\ attacks' = Opened.rows
    /\ lastId' = Opened.lastId
    /\ file' = IF manager = "server" THEN Opened ELSE file
    /\ initialized' = TRUE
    /\ calls' = [calls EXCEPT ![c].pc = "ready"]
    /\ UNCHANGED manager
    /\ UNCHANGED analysisVars

\* initSqlJs has rejected for call c
LoadFailed(c) ==
    /\ calls[c].pc = "loading"
    /\ calls' = [calls EXCEPT ![c].pc = "rejected"]
    /\ UNCHANGED <<attacks, lastId, initialized, manager, db, file>>
    /\ UNCHANGED analysisVars

\* the call resolves to a value, or rejects when this.db is null
Settled(c, value) ==
    calls' = [calls EXCEPT ![c].pc = IF db = 0 THEN "rejected" ELSE "done",
                           ![c].result = IF db = 0 THEN NoValue ELSE value]

SaveAttackBody(c) ==
    /\ calls[c].pc = "ready"
    /\ calls[c].op = "saveAttack"
    /\ IF db = 0
       THEN UNCHANGED <<attacks, lastId, initialized, db, file>>
       ELSE saveAttack(IF manager = "client"
                       THEN [calls[c].arg EXCEPT
                               !.analysis_result = Stringified(calls[c].arg.analysis_result)]
                       ELSE calls[c].arg)
    /\ Settled(c, Store.lastId + 1)
    /\ UNCHANGED manager
    /\ UNCHANGED analysisVars

GetAllAttacksBody(c) ==
    /\ calls[c].pc = "ready"
    /\ calls[c].op = "getAllAttacks"
    /\ \E rows \in getAllAttacks : Settled(c, rows)
    /\ UNCHANGED <<attacks, lastId, initialized, manager, db, file>>
    /\ UNCHANGED analysisVars

GetStatsBody(c) ==
    /\ calls[c].pc = "ready"
    /\ calls[c].op = "getStats"
    /\ Settled(c, getStats)
    /\ UNCHANGED <<attacks, lastId, initialized, manager, db, file>>
    /\ UNCHANGED analysisVars

DeleteAttackBody(c) ==
    /\ calls[c].pc = "ready"
    /\ calls[c].op = "deleteAttack"
    /\ IF db = 0
       THEN UNCHANGED <<attacks, lastId, initialized, db, file>>
       ELSE deleteAttack(calls[c].arg)
    /\ Settled(c, deleteAttackResult(calls[c].arg))
    /\ UNCHANGED manager
    /\ UNCHANGED analysisVars

StoreNext ==
    \/ \E r \in ClientRecords :
          \* the server is handed analysis_result as a JSON text
          Start("saveAttack",
                IF manager = "client" THEN r
                ELSE [r EXCEPT !.analysis_result = Stringified(r.analysis_result)])
    \/ Start("getAllAttacks", NoValue)
    \/ Start("getStats", NoValue)
    \/ \E id \in {1, 2} : Start("deleteAttack", id)
    \/ \E c \in 1..Len(calls) :
          \/ Loaded(c)
          \/ LoadFailed(c)
          \/ SaveAttackBody(c)
          \/ GetAllAttacksBody(c)
          \/ GetStatsBody(c)
          \/ DeleteAttackBody(c)

SpecStore == StoreInit /\ [][StoreNext]_vars

(***************************************************************************)
(* Properties.                                                             *)
(***************************************************************************)
Analysed == detection # NoValue

\* C1: whatever the input and its declared or detected category, the
\* threatScore analyze returns is an integer from 0 to 100 and isPhishing is
\* true exactly when that score is at least 40, on the URL path and on the
\* content path, also when the sum of the weights exceeds 100.
ScoreInRangeAndPhishingFromForty ==
    Analysed =>
        /\ detection.threatScore \in 0..100
        /\ detection.isPhishing <=> (detection.threatScore >= 40)

\* a URL whose checks add up to more than 100
ClampedURLAnalysed ==
    /\ Analysed
    /\ detection.category = "url"
    /\ SumWeights(URLHits(content)) > 100
    /\ detection.threatScore = 100
    /\ detection.isPhishing

ScenarioURL == (* https://g00gle-secure.xyz/login *) <<"h","t","t","p","s",":","/","/","g","0","0","g","l","e","-","s","e","c","u","r","e",".","x","y","z","/","l","o","g","i","n">>

ScenarioAnalysed == Analysed /\ content = ScenarioURL /\ detection.category = "url"

\* C2 as the scenario is written: https://g00gle-secure.xyz/login fires
\* Suspicious TLD and Typosquatting, not Suspicious Keywords, and comes out
\* at score 45, phishing, Medium.
ScenarioScoresFortyFive ==
    ScenarioAnalysed =>
        /\ HasType(detection, "Suspicious TLD")
        /\ HasType(detection, "Typosquatting")
        /\ ~HasType(detection, "Suspicious Keywords")
        /\ detection.threatScore = 45
        /\ detection.isPhishing
        /\ explanation.riskLevel = "Medium"

\* C2: analysing https://g00gle-secure.xyz/login fires Suspicious TLD (+15)
\* and Suspicious Keywords (+15, two keywords, login and secure), does not
\* fire Typosquatting (the hostname does not contain google), and yields
\* threatScore 30, isPhishing false and riskLevel Low.
ScenarioScoresThirty ==
    ScenarioAnalysed =>
        /\ Len(detection.indicators) = 2
        /\ detection.indicators[1].type = "Suspicious TLD"
        /\ detection.indicators[2].type = "Suspicious Keywords"
        /\ detection.indicators[2].evidence = (* login, secure *) <<"l","o","g","i","n",","," ","s","e","c","u","r","e">>
        /\ ~HasType(detection, "Typosquatting")
        /\ detection.threatScore = 30
        /\ ~detection.isPhishing
        /\ explanation.riskLevel = "Low"

ScenarioReached == ScenarioAnalysed /\ explanation # NoValue

\* C3: analyzeIntent returns at least one attackerIntent entry for every
\* detection result, the one without indicators included.
AtLeastOneIntent ==
    reasoning # NoValue => Len(reasoning.attackerIntent) >= 1

NoIndicatorsReasoned ==
    /\ reasoning # NoValue
    /\ detection.indicators = <<>>
    /\ Len(reasoning.attackerIntent) = 1

\* the five-tier table
Tier(score) ==
    IF score \in 80..100 THEN "Critical"
    ELSE IF score \in 60..79 THEN "High"
    ELSE IF score \in 40..59 THEN "Medium"
    ELSE IF score \in 20..39 THEN "Low"
    ELSE "Safe"

\* C4: riskLevel depends on threatScore alone, Critical for 80..100, High
\* for 60..79, Medium for 40..59, Low for 20..39 and Safe for 0..19, so that
\* 20, 40, 60 and 80 fall in the higher tier, and the second copy of the
\* Explainer gives the same tier for every score from 0 to 100.
RiskLevelFollowsTiers ==
    explanation # NoValue =>
        /\ detection.threatScore \in 0..19 <=> explanation.riskLevel = "Safe"
        /\ explanation.riskLevel = Tier(detection.threatScore)
        /\ determineRiskLevel_part001(detection.threatScore) = explanation.riskLevel

BoundaryExplained ==
    /\ explanation # NoValue
    /\ detection.threatScore = 80
    /\ explanation.riskLevel = "Critical"

\* C5: a request adds a record exactly when its threatScore is at least 20,
\* one record and no more; below 20 the store is left as it was and the
\* full result is still returned; every record has a threat_score from 20
\* to 100, the detection's category as its type and the first
\* min(500, length) characters of the submitted content.
RecordSavedFromTwenty ==
    /\ [][ IF status' = 200 /\ detection'.threatScore >= 20
           THEN /\ Len(attacks') = Len(attacks) + 1
                /\ SubSeq(attacks', 1, Len(attacks)) = attacks
                /\ attacks'[Len(attacks')].type = detection'.category
                /\ attacks'[Len(attacks')].threat_score = detection'.threatScore
                /\ attacks'[Len(attacks')].content
                     = SubSeq(content', 1, Min(500, Len(content')))
           ELSE /\ attacks' = attacks
                /\ status' = 200 =>
                     /\ detection' # NoValue
                     /\ reasoning' # NoValue
                     /\ explanation' # NoValue ]_vars
    /\ [](\A k \in 1..Len(attacks) :
            /\ attacks[k].threat_score \in 20..100
            /\ Len(attacks[k].content) <= 500)

LongContentStoredThenLowScore ==
    /\ status = 200
    /\ detection.threatScore < 20
    /\ \E k \in 1..Len(attacks) : Len(attacks[k].content) = 500

Unparsable == Analysed /\ detection.category = "url" /\ ~ParseURL(content).ok

\* C6: when the category is url and the text does not parse as a URL, the
\* result has the Invalid URL indicator of severity high and no other,
\* threatScore 20, isPhishing false and category url.
UnparsableIsInvalidURL ==
    Unparsable =>
        /\ Len(detection.indicators) = 1
        /\ detection.indicators[1].type = "Invalid URL"
        /\ detection.indicators[1].severity = "high"
        /\ detection.threatScore = 20
        /\ ~detection.isPhishing
        /\ detection.category = "url"

UnparsableWithKeywords ==
    /\ Unparsable
    /\ includes(content, (* @ *) <<"@">>)
    /\ Len(foundKeywords(content)) >= 2

\* the brand list in the order the property gives it
BrandOrder ==
    << "paypal", "google", "microsoft", "amazon", "apple", "facebook", "netflix",
       "instagram" >>

TyposquattingIndicators(d) ==
    { k \in 1..Len(d.indicators) : d.indicators[k].type = "Typosquatting" }

\* the brands the hostname of a parsed URL matches, by position in the list
MatchingBrands(url) ==
    { k \in 1..Len(commonBrands) :
        BrandMatches(commonBrands[k], toLowerCase(ParseURL(url).hostname)) }

\* C7: a URL analysis has at most one Typosquatting indicator, however
\* many brands of the list the hostname matches, and it reports the first
\* brand, in the order paypal, google, microsoft, amazon, apple, facebook,
\* netflix, instagram, that matches.
OneTyposquattingFirstBrand ==
    (Analysed /\ detection.category = "url") =>
        /\ Cardinality(TyposquattingIndicators(detection)) <= 1
        /\ ParseURL(content).ok =>
             /\ MatchingBrands(content) = {}
                   <=> TyposquattingIndicators(detection) = {}
             /\ \A k \in TyposquattingIndicators(detection) :
                  \E b \in MatchingBrands(content) :
                     /\ \A other \in MatchingBrands(content) : b <= other
                     /\ detection.indicators[k].description
                          = "Possible typosquatting of " \o BrandOrder[b]

SeveralBrandsMatched ==
    /\ Analysed
    /\ detection.category = "url"
    /\ ParseURL(content).ok
    /\ Cardinality(MatchingBrands(content)) >= 2
    /\ Cardinality(TyposquattingIndicators(detection)) = 1

\* every keyword of the content checks
TriggerPhrases ==
    urgencyKeywords \o credentialKeywords \o authorityKeywords \o threatKeywords
        \o rewardKeywords \o grammarIssues

\* the trigger phrases a message contains; 0 stands for a suspicious link
Triggers(text) ==
    LET lower == toLowerCase(text)
    IN  { k \in 1..Len(TriggerPhrases) : includes(lower, TriggerPhrases[k]) }
            \cup (IF SuspiciousLinksCheck(text, lower) # <<>> THEN {0} ELSE {})

OnContentPath(d) == d # NoValue /\ d.category \in {"email", "message"}

\* C8: on the content path, a message whose trigger phrases include those
\* of another scores at least as much; adding phrases to a message never
\* lowers its threatScore, also when the sum is clamped at 100.
MorePhrasesNeverLowerScore ==
    [][ (/\ OnContentPath(detection)
         /\ OnContentPath(detection')
         /\ Triggers(content) \subseteq Triggers(content'))
        => detection.threatScore <= detection'.threatScore ]_vars

ClampedMessageExtended ==
    /\ OnContentPath(detection)
    /\ Cardinality(PhrasesIn(content)) >= 2
    /\ SumWeights(ContentHits(content)) > 100

\* the label of the first of the five rules that fires, in their order
FirstFiringLabel(d) ==
    IF CredentialTheftFires(d) THEN "Phishing - Credential Harvesting"
    ELSE IF FinancialFraudFires(d) THEN "Financial Phishing"
    ELSE IF MalwareDistributionFires(d) THEN "Malware Delivery"
    ELSE IF DataHarvestingFires(d) THEN "Spear Phishing"
    ELSE IF AccountTakeoverFires(d) THEN "Account Compromise Attack"
    ELSE "none"

LabelOf(intent) ==
    IF intent = CredentialTheft THEN "Phishing - Credential Harvesting"
    ELSE IF intent = FinancialFraud THEN "Financial Phishing"
    ELSE IF intent = MalwareDistribution THEN "Malware Delivery"
    ELSE IF intent = DataHarvesting THEN "Spear Phishing"
    ELSE IF intent = AccountTakeover THEN "Account Compromise Attack"
    ELSE "none"

NoRuleFires(d) ==
    /\ ~CredentialTheftFires(d)
    /\ ~FinancialFraudFires(d)
    /\ ~MalwareDistributionFires(d)
    /\ ~DataHarvestingFires(d)
    /\ ~AccountTakeoverFires(d)

\* C9: attackType is the label of the first rule that fires in the order
\* Credential Theft, Financial Fraud, Malware Distribution, Data
\* Harvesting, Account Takeover; a rule firing later does not overwrite it.
AttackTypeOfFirstRule ==
    (reasoning # NoValue /\ ~NoRuleFires(detection)) =>
        /\ reasoning.attackType = FirstFiringLabel(detection)
        /\ reasoning.attackType = LabelOf(reasoning.attackerIntent[1].intent)

LaterRuleFiredToo ==
    /\ reasoning # NoValue
    /\ ~CredentialTheftFires(detection)
    /\ FinancialFraudFires(detection)
    /\ AccountTakeoverFires(detection)
    /\ reasoning.attackType = "Financial Phishing"

HasReconnaissance(r) ==
    \E k \in 1..Len(r.attackerIntent) : r.attackerIntent[k].intent = Reconnaissance

\* C10: Reconnaissance, with confidence 50, is among the intents exactly
\* when none of the five rules fired; it is then the only entry and
\* attackType is Suspicious Activity; when a rule fired it is absent.
ReconnaissanceIffNoRule ==
    reasoning # NoValue =>
        /\ HasReconnaissance(reasoning) <=> NoRuleFires(detection)
        /\ NoRuleFires(detection) =>
             /\ Len(reasoning.attackerIntent) = 1
             /\ reasoning.attackerIntent[1].intent = Reconnaissance
             /\ reasoning.attackerIntent[1].confidence = 50
             /\ reasoning.attackType = "Suspicious Activity"

IndicatorsButNoRule ==
    /\ reasoning # NoValue
    /\ detection.indicators # <<>>
    /\ NoRuleFires(detection)
    /\ HasReconnaissance(reasoning)

HasRecommendation(e, line) ==
    \E k \in 1..Len(e.recommendations) : e.recommendations[k] = line

\* a message with URGENT, verify your identity, account has been suspended
\* and a bit.ly link in it, analysed on the content path
UrgentScenario ==
    /\ OnContentPath(detection)
    /\ includes(content, (* URGENT *) <<"U","R","G","E","N","T">>)
    /\ includes(content, (* verify your identity *) <<"v","e","r","i","f","y"," ","y","o","u","r"," ","i","d","e","n","t","i","t","y">>)
    /\ includes(content, (* account has been suspended *) <<"a","c","c","o","u","n","t"," ","h","a","s"," ","b","e","e","n"," ","s","u","s","p","e","n","d","e","d">>)
    /\ includes(content, (* http://bit.ly/ *) <<"h","t","t","p",":","/","/","b","i","t",".","l","y","/">>)

\* C11: a message containing URGENT, verify your identity, account has been
\* suspended and a bit.ly link fires Urgency Tactics, Credential Request,
\* Threatening Language and Suspicious Links, scores at least 70, is
\* Critical or High, has attackType Phishing - Credential Harvesting, and
\* its recommendations hold the Critical/High block, the two-factor add-on
\* and the Fear & Anxiety add-on.
UrgentScenarioIsCredentialHarvesting ==
    UrgentScenario =>
        /\ HasType(detection, "Urgency Tactics")
        /\ HasType(detection, "Credential Request")
        /\ HasType(detection, "Threatening Language")
        /\ HasType(detection, "Suspicious Links")
        /\ detection.threatScore >= 70
        /\ explanation.riskLevel \in {"Critical", "High"}
        /\ reasoning.attackType = "Phishing - Credential Harvesting"
        /\ explanation.recommendations[1]
             = "**DO NOT** interact with this content or click any links"
        /\ explanation.recommendations[2] = "Delete this message immediately"
        /\ HasRecommendation(explanation,
             "Enable two-factor authentication on all important accounts")
        /\ HasRecommendation(explanation,
             "Take a moment to verify - legitimate organizations don't create panic")

UrgentScenarioReached == UrgentScenario /\ detection.threatScore = 70

\* C12: a message in which no content check matches comes back with no
\* indicator, threatScore 0, isPhishing false, riskLevel Safe, the single
\* intent Reconnaissance and attackType Suspicious Activity.
NothingMatchedIsSafe ==
    (OnContentPath(detection) /\ Triggers(content) = {}) =>
        /\ detection.indicators = <<>>
        /\ detection.threatScore = 0
        /\ ~detection.isPhishing
        /\ explanation.riskLevel = "Safe"
        /\ Len(reasoning.attackerIntent) = 1
        /\ reasoning.attackerIntent[1].intent = Reconnaissance
        /\ reasoning.attackType = "Suspicious Activity"

LunchMessageAnalysed ==
    /\ OnContentPath(detection)
    /\ content = (* Hi, just checking in about lunch tomorrow. *) <<"H","i",","," ","j","u","s","t"," ","c","h","e","c","k","i","n","g"," ","i","n"," ","a","b","o","u","t"," ","l","u","n","c","h"," ","t","o","m","o","r","r","o","w",".">>
    /\ explanation.riskLevel = "Safe"

SeverityCount(d, sev) ==
    Cardinality({ k \in 1..Len(d.indicators) : d.indicators[k].severity = sev })

\* C13: the confidence of a ReasoningResult is min(95, 50 + 15*h + 8*m), h
\* and m being the numbers of high and of medium indicators; it lies in
\* 50..95, low indicators leave it alone, and it is 50 exactly when there
\* is no high and no medium indicator.
ConfidenceFromSeverities ==
    reasoning # NoValue =>
        /\ reasoning.confidence
             = Min(95, 50 + 15 * SeverityCount(detection, "high")
                          + 8 * SeverityCount(detection, "medium"))
        /\ reasoning.confidence \in 50..95
        /\ reasoning.confidence = 50
             <=> (/\ SeverityCount(detection, "high") = 0
                  /\ SeverityCount(detection, "medium") = 0)

ConfidenceCapped ==
    /\ reasoning # NoValue
    /\ 50 + 15 * SeverityCount(detection, "high")
          + 8 * SeverityCount(detection, "medium") > 95
    /\ reasoning.confidence = 95

URLTypes ==
    { "IP Address", "Suspicious TLD", "Typosquatting", "Excessive Subdomains",
      "Suspicious Keywords", "URL Obfuscation", "Insecure Protocol", "Invalid URL" }

ContentTypes ==
    { "Urgency Tactics", "Credential Request", "Authority Impersonation",
      "Threatening Language", "Too Good to Be True", "Suspicious Links",
      "Generic Greeting" }

IndicatorTypes(d) == { d.indicators[k].type : k \in 1..Len(d.indicators) }

\* the category of the property, prefix standing for 'starts with http:// or
\* https://'
SelectedCategory(prefix) ==
    IF type # "none" THEN type
    ELSE IF prefix THEN "url"
    ELSE IF includes(content, (* @ *) <<"@">>) /\ includes(content, (* subject: *) <<"s","u","b","j","e","c","t",":">>) THEN "email"
    ELSE "message"

\* the returned category is the selected one and the analysis is its path's
CategoryIs(category) ==
    /\ detection.category = category
    /\ IF category = "url"
       THEN IndicatorTypes(detection) \subseteq URLTypes
       ELSE IndicatorTypes(detection) \subseteq ContentTypes

\* C14 as it is written: a declared category is used and returned; with
\* none declared the category is url if the text starts with http:// or
\* https://, letter for letter, else email if it contains @ and subject:,
\* else message; the URL analysis runs exactly for url.
CategoryByExactPrefix ==
    Analysed =>
        CategoryIs(SelectedCategory(\/ MatchesAt(content, (* http:// *) <<"h","t","t","p",":","/","/">>, 0)
                                    \/ MatchesAt(content, (* https:// *) <<"h","t","t","p","s",":","/","/">>, 0)))

\* C14: a declared category is used and returned unchanged; with none
\* declared the category is url if the text starts with http:// or
\* https:// in any letter case, otherwise email if it contains @ and the
\* literal subject:, otherwise message; the URL analysis runs exactly when
\* the category is url, and the returned category is the one that selected
\* the path.
CategoryByPrefixInAnyCase ==
    Analysed =>
        CategoryIs(SelectedCategory(\/ MatchesAt(toLowerCase(content), (* http:// *) <<"h","t","t","p",":","/","/">>, 0)
                                    \/ MatchesAt(toLowerCase(content), (* https:// *) <<"h","t","t","p","s",":","/","/">>, 0)))

UpperCaseSchemeDetected ==
    /\ Analysed
    /\ type = "none"
    /\ MatchesAt(content, (* HTTPS:// *) <<"H","T","T","P","S",":","/","/">>, 0)
    /\ detection.category = "url"

URLOrder ==
    << "IP Address", "Suspicious TLD", "Typosquatting", "Excessive Subdomains",
       "Suspicious Keywords", "URL Obfuscation", "Insecure Protocol" >>

URLWeights == << 25, 15, 30, 10, 15, 25, 10 >>

\* the place of an indicator type in the fixed order, 0 when it has none
URLPosition(t) ==
    IF \E i \in 1..Len(URLOrder) : URLOrder[i] = t
    THEN CHOOSE i \in 1..Len(URLOrder) : URLOrder[i] = t
    ELSE 0

RECURSIVE URLWeightSum(_)
URLWeightSum(indicators) ==
    IF indicators = <<>> THEN 0
    ELSE URLWeights[URLPosition(Head(indicators).type)] + URLWeightSum(Tail(indicators))

ParsedURL == Analysed /\ detection.category = "url" /\ ParseURL(content).ok

\* C15: for a URL that parses the indicators follow the order IP Address,
\* Suspicious TLD, Typosquatting, Excessive Subdomains, Suspicious
\* Keywords, URL Obfuscation, Insecure Protocol, each type at most once,
\* threatScore is min(100, sum of their weights 25, 15, 30, 10, 15, 25, 10),
\* and Invalid URL never comes with any of them.
URLIndicatorsInOrderWithWeights ==
    /\ ParsedURL =>
        /\ \A k \in 1..Len(detection.indicators) :
              URLPosition(detection.indicators[k].type) > 0
        /\ \A j, k \in 1..Len(detection.indicators) :
              j < k => URLPosition(detection.indicators[j].type)
                         < URLPosition(detection.indicators[k].type)
        /\ detection.threatScore = Min(100, URLWeightSum(detection.indicators))
    /\ (Analysed /\ HasType(detection, "Invalid URL")) =>
          Len(detection.indicators) = 1

SixURLIndicators ==
    /\ ParsedURL
    /\ Len(detection.indicators) = 6
    /\ URLWeightSum(detection.indicators) > 100

\* the keywords of a list found in a lower-cased text
MatchedIn(keywords, lower) == { k \in 1..Len(keywords) : includes(lower, keywords[k]) }

Flag(keywords, lower) == IF MatchedIn(keywords, lower) = {} THEN 0 ELSE 1

LinkFlag(text) ==
    IF SuspiciousLinksCheck(text, toLowerCase(text)) # <<>> THEN 1 ELSE 0

UrgencyCount(text) == Cardinality(MatchedIn(urgencyKeywords, toLowerCase(text)))

UrgencySeverities(d) ==
    { d.indicators[k].severity :
        k \in { j \in 1..Len(d.indicators) : d.indicators[j].type = "Urgency Tactics" } }

\* C16: on the content path threatScore is
\* min(100, 10*u + 25*c + 20*a + 20*t + 15*r + 15*l + 5*g), u the number of
\* urgency phrases matched and the others 0/1 flags of the other six
\* checks; Urgency Tactics is high exactly when u > 2, medium for 1 and 2.
ContentScoreFormula ==
    OnContentPath(detection) =>
        LET lower == toLowerCase(content)
            u == Cardinality(MatchedIn(urgencyKeywords, lower))
            c == Flag(credentialKeywords, lower)
            a == Flag(authorityKeywords, lower)
            t == Flag(threatKeywords, lower)
            r == Flag(rewardKeywords, lower)
            l == LinkFlag(content)
            g == Flag(grammarIssues, lower)
        IN  /\ detection.threatScore
                 = Min(100, 10 * u + 25 * c + 20 * a + 20 * t + 15 * r + 15 * l + 5 * g)
            /\ u \in 0..12
            /\ UrgencySeverities(detection)
                 = IF u = 0 THEN {} ELSE IF u > 2 THEN {"high"} ELSE {"medium"}
            /\ HasType(detection, "Credential Request") <=> c = 1
            /\ HasType(detection, "Authority Impersonation") <=> a = 1
            /\ HasType(detection, "Threatening Language") <=> t = 1
            /\ HasType(detection, "Too Good to Be True") <=> r = 1
            /\ HasType(detection, "Suspicious Links") <=> l = 1
            /\ HasType(detection, "Generic Greeting") <=> g = 1

TwoUrgencyPhrasesAndCredentials ==
    /\ OnContentPath(detection)
    /\ UrgencyCount(content) = 2
    /\ HasType(detection, "Credential Request")
    /\ detection.threatScore = 45

KeywordsInURL == MatchedIn(suspiciousKeywords, toLowerCase(content))

\* C17: in the analysis of a URL Insecure Protocol is emitted exactly when
\* the scheme is http: and some suspicious keyword occurs in the URL, so
\* also with one keyword, when Suspicious Keywords is not, and never for
\* https.
InsecureProtocolIffHttpAndKeyword ==
    ParsedURL =>
        /\ HasType(detection, "Insecure Protocol")
             <=> (ParseURL(content).protocol = (* http: *) <<"h","t","t","p",":">> /\ KeywordsInURL # {})
        /\ ParseURL(content).protocol = (* https: *) <<"h","t","t","p","s",":">>
             => ~HasType(detection, "Insecure Protocol")
        /\ HasType(detection, "Suspicious Keywords")
             <=> Cardinality(KeywordsInURL) >= 2

InsecureWithOneKeyword ==
    /\ ParsedURL
    /\ Cardinality(KeywordsInURL) = 1
    /\ HasType(detection, "Insecure Protocol")
    /\ ~HasType(detection, "Suspicious Keywords")

IntentOrder ==
    << CredentialTheft, FinancialFraud, MalwareDistribution, DataHarvesting,
       AccountTakeover >>

IntentConfidences == << 85, 80, 70, 75, 78 >>

\* whether the rule at a place of the order has its condition met
RuleFires(i, d) ==
    IF i = 1 THEN CredentialTheftFires(d)
    ELSE IF i = 2 THEN FinancialFraudFires(d)
    ELSE IF i = 3 THEN MalwareDistributionFires(d)
    ELSE IF i = 4 THEN DataHarvestingFires(d)
    ELSE AccountTakeoverFires(d)

IntentPosition(intent) ==
    IF \E i \in 1..Len(IntentOrder) : IntentOrder[i] = intent
    THEN CHOOSE i \in 1..Len(IntentOrder) : IntentOrder[i] = intent
    ELSE 0

\* C18: attackerIntent is a subsequence without duplicates of Credential
\* Theft, Financial Fraud, Malware Distribution, Data Harvesting, Account
\* Takeover, or the single fallback entry; a rule's entry is there exactly
\* when its own condition holds, whatever the other rules do, and the
\* entries carry the confidences 85, 80, 70, 75, 78.
IntentsInOrderEachOnItsOwn ==
    reasoning # NoValue =>
        LET intents == reasoning.attackerIntent
        IN  \/ /\ Len(intents) = 1
               /\ intents[1].intent = Reconnaissance
               /\ \A i \in 1..Len(IntentOrder) : ~RuleFires(i, detection)
            \/ /\ \A k \in 1..Len(intents) :
                     /\ IntentPosition(intents[k].intent) > 0
                     /\ intents[k].confidence
                          = IntentConfidences[IntentPosition(intents[k].intent)]
               /\ \A j, k \in 1..Len(intents) :
                     j < k => IntentPosition(intents[j].intent)
                                < IntentPosition(intents[k].intent)
               /\ \A i \in 1..Len(IntentOrder) :
                     HasIntent(reasoning, IntentOrder[i]) <=> RuleFires(i, detection)

FourIntents ==
    /\ reasoning # NoValue
    /\ Len(reasoning.attackerIntent) >= 4
    /\ ~HasIntent(reasoning, MalwareDistribution)

VulnerabilityOrder ==
    << "Fear & Anxiety", "Authority Bias", "Urgency & Time Pressure",
       "Greed & Reward Seeking", "Curiosity", "Helpfulness & Compliance" >>

VulnerabilitySeverities == << "high", "high", "medium", "medium", "low", "low" >>

\* the condition of the vulnerability at a place of the order
VulnerabilityHolds(i, d) ==
    IF i = 1 THEN {"Threatening Language", "Urgency Tactics"} \cap IndicatorTypes(d) # {}
    ELSE IF i = 2 THEN "Authority Impersonation" \in IndicatorTypes(d)
    ELSE IF i = 3 THEN "Urgency Tactics" \in IndicatorTypes(d)
    ELSE IF i = 4 THEN "Too Good to Be True" \in IndicatorTypes(d)
    ELSE IF i = 5 THEN "Suspicious Links" \in IndicatorTypes(d)
    ELSE \/ "Generic Greeting" \in IndicatorTypes(d)
         \/ \E k \in 1..Len(d.indicators) :
               includes(toLowerCase(d.indicators[k].evidence), (* kindly *) <<"k","i","n","d","l","y">>)

VulnerabilityPosition(trigger) ==
    IF \E i \in 1..Len(VulnerabilityOrder) : VulnerabilityOrder[i] = trigger
    THEN CHOOSE i \in 1..Len(VulnerabilityOrder) : VulnerabilityOrder[i] = trigger
    ELSE 0

\* C19: Fear & Anxiety (high) is inferred exactly from Threatening Language
\* or Urgency Tactics, Authority Bias (high) from Authority Impersonation,
\* Urgency & Time Pressure (medium) from Urgency Tactics, Greed & Reward
\* Seeking (medium) from Too Good to Be True, Curiosity (low) from
\* Suspicious Links, Helpfulness & Compliance (low) from Generic Greeting or
\* kindly in the evidence; they come in that order, each at most once, and
\* Urgency & Time Pressure never without Fear & Anxiety.
VulnerabilitiesFromIndicators ==
    reasoning # NoValue =>
        LET found == reasoning.vulnerabilities
        IN  /\ \A k \in 1..Len(found) :
                  /\ VulnerabilityPosition(found[k].trigger) > 0
                  /\ found[k].severity
                       = VulnerabilitySeverities[VulnerabilityPosition(found[k].trigger)]
            /\ \A j, k \in 1..Len(found) :
                  j < k => VulnerabilityPosition(found[j].trigger)
                             < VulnerabilityPosition(found[k].trigger)
            /\ \A i \in 1..Len(VulnerabilityOrder) :
                  HasTrigger(reasoning, VulnerabilityOrder[i])
                     <=> VulnerabilityHolds(i, detection)
            /\ HasTrigger(reasoning, "Urgency & Time Pressure")
                  => HasTrigger(reasoning, "Fear & Anxiety")

KindlyInEvidenceOnly ==
    /\ reasoning # NoValue
    /\ ~HasType(detection, "Generic Greeting")
    /\ HasTrigger(reasoning, "Helpfulness & Compliance")

\* the lines of the first copy of the Explainer, by the block that pushes them
RecommendationLines ==
    [critical |-> << "**DO NOT** interact with this content or click any links",
                     "Delete this message immediately",
                     "Report as phishing to your email provider",
                     "If you clicked any links, change your passwords immediately",
                     "Never entered credentials? Good! If you did, change passwords NOW" >>,
     medium   |-> << "Exercise extreme caution with this content",
                     "Verify the sender through official channels before responding",
                     "Do not click links or download attachments" >>,
     low      |-> << "Be cautious and verify the source independently",
                     "Hover over links to check actual destinations before clicking" >>,
     addOns   |-> << "Enable two-factor authentication on all important accounts",
                     "Monitor your bank statements for unauthorized transactions",
                     "Take a moment to verify - legitimate organizations don't create panic",
                     "Contact the organization directly using official contact information" >>,
     general  |-> "Educate yourself and others about these tactics to stay protected"]

\* the lines of the second copy
RecommendationLines_part001 ==
    [critical |-> << "SECURITY ALERT: DO NOT interact with this content or click any links",
                     "Immediate action required: Delete this message",
                     "Report as phishing to your email provider or IT security",
                     "If links were accessed, initiate password reset protocols immediately",
                     "System Warning: Do not provide credentials. If already provided, reset immediately." >>,
     medium   |-> << "Security Notice: Exercise extreme caution with this content",
                     "Verification Required: Confirm sender identity via official channels",
                     "Access Restricted: Do not click links or download attachments" >>,
     low      |-> << "Observation: Verify the source independently",
                     "Validation: Inspect link destinations (hover) before interaction" >>,
     addOns   |-> << "Action Required: Enable two-factor authentication (2FA) immediately",
                     "Action Required: Monitor financial statements for unauthorized activity",
                     "Analysis Note: Legitimate organizations do not utilize panic-inducing tactics",
                     "Procedure: Contact the organization directly via official verified channels" >>,
     general  |-> "Educate yourself and others about these tactics to stay protected"]

Lines(list) == { list[k] : k \in 1..Len(list) }

\* the place of a line in the order of the claim: 1 for the tier block, 2 to
\* 5 for the four add-ons, 6 for the general line, 0 for any other text
Slot(line, c) ==
    IF line \in Lines(c.critical) \cup Lines(c.medium) \cup Lines(c.low) THEN 1
    ELSE IF \E a \in 1..4 : c.addOns[a] = line
         THEN 1 + (CHOOSE a \in 1..4 : c.addOns[a] = line)
    ELSE IF line = c.general THEN 6
    ELSE 0

\* the condition of the add-on at a place of the order
AddOnHolds(a, r) ==
    IF a = 1 THEN HasIntent(r, CredentialTheft)
    ELSE IF a = 2 THEN HasIntent(r, FinancialFraud)
    ELSE IF a = 3 THEN HasTrigger(r, "Fear & Anxiety")
    ELSE HasTrigger(r, "Authority Bias")

InFixedOrder(recs, c, r, riskLevel) ==
    LET block == SelectSeq(recs, LAMBDA line : Slot(line, c) = 1)
    IN  /\ \A k \in 1..Len(recs) : Slot(recs[k], c) \in 1..6
        /\ \A j, k \in 1..Len(recs) :
              j < k => /\ Slot(recs[j], c) <= Slot(recs[k], c)
                       /\ recs[j] # recs[k]
        /\ IF riskLevel \in {"Critical", "High"}
           THEN /\ Len(block) >= 2
                /\ Lines(block) \subseteq Lines(c.critical)
                /\ recs[1] = c.critical[1]
                /\ recs[2] = c.critical[2]
           ELSE IF riskLevel = "Medium" THEN block = c.medium
           ELSE IF riskLevel = "Low" THEN block = c.low
           ELSE block = <<>>
        /\ \A a \in 1..4 : c.addOns[a] \in Lines(recs) <=> AddOnHolds(a, r)
        /\ (recs # <<>> /\ recs[Len(recs)] = c.general) <=> riskLevel # "Safe"

\* C20: in both copies of the Explainer the recommendations are the block of
\* the one tier (none for Safe), then the Credential Theft, Financial Fraud,
\* Fear & Anxiety and Authority Bias add-ons, then the general-education
\* line; that line is the last element exactly when riskLevel is not Safe,
\* and for Critical or High the first two elements are the do-not-interact
\* and the delete-this-message lines.
RecommendationsInFixedOrder ==
    explanation # NoValue =>
        /\ InFixedOrder(explanation.recommendations, RecommendationLines,
                        reasoning, explanation.riskLevel)
        /\ InFixedOrder(generateRecommendations_part001(detection, reasoning,
                            determineRiskLevel_part001(detection.threatScore)),
                        RecommendationLines_part001, reasoning,
                        determineRiskLevel_part001(detection.threatScore))

AllBlocksRecommended ==
    /\ explanation # NoValue
    /\ explanation.riskLevel \in {"Critical", "High"}
    /\ detection.category = "email"
    /\ Len(explanation.recommendations) = 10

Stored(id) == \E k \in 1..Len(Store.rows) : Store.rows[k].id = id

\* C21 as stated: DELETE /api/history/:id answers 404 'Attack record not
\* found' and leaves the store as it was when no record has that id, and
\* answers 'Attack record deleted' only when a record was removed.
DeleteAnswersByPresence ==
    [][ \A id \in 1..MaxIds :
          DeleteHistory(id) =>
              IF Stored(id)
              THEN message' = "Attack record deleted" => Len(attacks') < Len(Store.rows)
              ELSE /\ status' = 404
                   /\ message' = "Attack record not found"
                   /\ attacks' = Store.rows ]_vars

Distance(a, b) == IF a >= b THEN a - b ELSE b - a

HighThreats(rows) == { k \in 1..Len(rows) : rows[k].threat_score >= 70 }

\* C22: whatever saveAttack and deleteAttack calls came before, getStats
\* returns as totalAttacks the number of stored records, as highThreatCount
\* the number of those with threat_score from 70 (so never more than
\* totalAttacks) and as averageThreatScore the integer nearest to their mean
\* threat_score; for an empty store all three are 0.
StatsOfStoredRecords ==
    [][ \A c \in 1..Len(calls) :
          GetStatsBody(c) =>
              LET stats == calls'[c].result
                  n == Len(attacks)
              IN  /\ stats.totalAttacks = n
                  /\ stats.highThreatCount = Cardinality(HighThreats(attacks))
                  /\ stats.highThreatCount <= stats.totalAttacks
                  /\ IF n = 0
                     THEN stats.averageThreatScore = 0
                     ELSE 2 * Distance(stats.averageThreatScore * n, SumScores(attacks)) <= n ]_vars

\* getStats answered over three records whose mean, 61.67, is rounded up
StatsRoundedUp ==
    \E c \in 1..Len(calls) :
        /\ calls[c].op = "getStats"
        /\ calls[c].pc = "done"
        /\ calls[c].result = [totalAttacks |-> 3, averageThreatScore |-> 62,
                              highThreatCount |-> 2]

\* the saveAttack calls that have resolved and whose id no deleteAttack call
\* was given
SavedAndKept ==
    { s \in 1..Len(calls) :
        /\ calls[s].op = "saveAttack"
        /\ calls[s].pc = "done"
        /\ ~\E d \in 1..Len(calls) :
              calls[d].op = "deleteAttack" /\ calls[d].arg = calls[s].result }

\* the record of a resolved saveAttack call as getAllAttacks returns it
SavedRow(s) == [id |-> calls[s].result] @@ calls[s].arg

DatabaseConstructedOnce ==
    [][ /\ db' <= 1
        /\ db # 0 => db' = db ]_vars

PhishingTiers == {"Critical", "High", "Medium"}

\* the findings of the Attack Classification entry of the technical details
Classification(e) ==
    LET details == e.technicalDetails
    IN  details[CHOOSE k \in 1..Len(details) :
                    details[k].category = "Attack Classification"].findings

\* C23: isPhishing is true exactly when riskLevel is Critical, High or
\* Medium, a Low or Safe result is never phishing, and the Phishing Detected
\* finding of the Attack Classification entry reads Yes exactly for Medium
\* and above.
PhishingIffMediumOrAbove ==
    explanation # NoValue =>
        /\ detection.isPhishing <=> explanation.riskLevel \in PhishingTiers
        /\ explanation.riskLevel \in {"Low", "Safe"} => ~detection.isPhishing
        /\ \E k \in 1..Len(explanation.technicalDetails) :
              explanation.technicalDetails[k].category = "Attack Classification"
        /\ "Phishing Detected: Yes" \in Lines(Classification(explanation))
              <=> explanation.riskLevel \in PhishingTiers
        /\ "Phishing Detected: No" \in Lines(Classification(explanation))
              <=> explanation.riskLevel \notin PhishingTiers

\* a Low result just under the cut, with indicators and Phishing Detected: No
LowTierNotPhishing ==
    /\ explanation # NoValue
    /\ explanation.riskLevel = "Low"
    /\ detection.threatScore = 35
    /\ ~detection.isPhishing
    /\ "Phishing Detected: No" \in Lines(Classification(explanation))

\* the label the rule of an intent assigns, and that of the fallback
PairedLabel ==
    [intent \in { CredentialTheft, FinancialFraud, MalwareDistribution,
                  DataHarvesting, AccountTakeover, Reconnaissance } |->
        IF intent = CredentialTheft THEN "Phishing - Credential Harvesting"
        ELSE IF intent = FinancialFraud THEN "Financial Phishing"
        ELSE IF intent = MalwareDistribution THEN "Malware Delivery"
        ELSE IF intent = DataHarvesting THEN "Spear Phishing"
        ELSE IF intent = AccountTakeover THEN "Account Compromise Attack"
        ELSE "Suspicious Activity"]

\* C24: attackType is the label paired with the first element of
\* attackerIntent (Suspicious Activity with Reconnaissance) and is never
\* 'Unknown'.
AttackTypePairedWithFirstIntent ==
    reasoning # NoValue =>
        /\ reasoning.attackerIntent[1].intent \in DOMAIN PairedLabel
        /\ reasoning.attackType = PairedLabel[reasoning.attackerIntent[1].intent]
        /\ reasoning.attackType # "Unknown"

\* a result whose first intent is not Credential Theft and is followed by others
FinancialFraudLeads ==
    /\ reasoning # NoValue
    /\ Len(reasoning.attackerIntent) >= 2
    /\ reasoning.attackerIntent[1].intent = FinancialFraud
    /\ reasoning.attackType = "Financial Phishing"

SafeSummary == "No significant threats detected. This appears to be legitimate content."

\* C25 as stated: a Safe result has an empty recommendations list and the
\* fixed summary, whatever its indicators.
SafeMeansNoRecommendations ==
    (explanation # NoValue /\ explanation.riskLevel = "Safe") =>
        /\ explanation.recommendations = <<>>
        /\ explanation.summary = SafeSummary

\* C25: a Safe result has the fixed summary, and its recommendations hold no
\* line of a tier block and no general-education line: they are the add-ons
\* whose own conditions hold, in order, and so empty exactly when none holds.
SafeMeansAddOnsOnly ==
    (explanation # NoValue /\ explanation.riskLevel = "Safe") =>
        /\ detection.threatScore < 20
        /\ explanation.summary = SafeSummary
        /\ Lines(explanation.recommendations) \subseteq Lines(RecommendationLines.addOns)
        /\ explanation.recommendations =
              SelectSeq(RecommendationLines.addOns,
                        LAMBDA line : \E a \in 1..4 :
                            RecommendationLines.addOns[a] = line /\ AddOnHolds(a, reasoning))
        /\ explanation.recommendations = <<>>
              <=> \A a \in 1..4 : ~AddOnHolds(a, reasoning)

\* a Safe result with an indicator and the Financial Fraud add-on
SafeWithAddOn ==
    /\ explanation # NoValue
    /\ explanation.riskLevel = "Safe"
    /\ detection.indicators # <<>>
    /\ explanation.summary = SafeSummary
    /\ explanation.recommendations
         = << "Monitor your bank statements for unauthorized transactions" >>

\* the altered and the decorated forms of a brand
AlteredForms(brand) ==
    (IF includes(brand, (* l *) <<"l">>) THEN { replace(brand, (* l *) <<"l">>, (* 1 *) <<"1">>) } ELSE {})
    \cup (IF includes(brand, (* o *) <<"o">>) THEN { replace(brand, (* o *) <<"o">>, (* 0 *) <<"0">>) } ELSE {})
    \cup { brand \o (* - *) <<"-">>, brand \o (* secure *) <<"s","e","c","u","r","e">>, brand \o (* verify *) <<"v","e","r","i","f","y">>, (* secure *) <<"s","e","c","u","r","e">> \o brand }

\* C28 as stated: a Typosquatting indicator is emitted only when the
\* hostname contains, for some brand of the list, the brand with an l
\* replaced by 1 or an o replaced by 0, or the brand followed by -, secure or
\* verify, or preceded by secure; a hostname with the brand spelled
\* correctly and undecorated gets none.
TyposquattingOnlyOfAlteredBrand ==
    ParsedURL =>
        (HasType(detection, "Typosquatting") =>
            \E k \in 1..Len(commonBrands) :
                \E form \in AlteredForms(commonBrands[k]) :
                    includes(toLowerCase(ParseURL(content).hostname), form))

FinancialCredentialKeywords == { (* credit card *) <<"c","r","e","d","i","t"," ","c","a","r","d">>, (* bank account *) <<"b","a","n","k"," ","a","c","c","o","u","n","t">>, (* update payment *) <<"u","p","d","a","t","e"," ","p","a","y","m","e","n","t">> }

\* C29 as stated: a message that matches the credential keyword credit
\* card, bank account or update payment is given the Financial Fraud intent,
\* whichever other credential keywords it matches.
FinancialKeywordMeansFinancialFraud ==
    (OnContentPath(detection) /\ reasoning # NoValue) =>
        LET lower == toLowerCase(content)
        IN  (\E kw \in FinancialCredentialKeywords : includes(lower, kw))
                => HasIntent(reasoning, FinancialFraud)

\* C30 as stated: for every successful analysis started from the panel,
\* detection.category in the response is the content type selected in the
\* panel.
SelectedTypeIsCategory ==
    [][ \A input \in PanelInputs, now \in {clock, clock + 1} :
          (Trim(input) # <<>> /\ handleAnalyze(input, now) /\ status' = 200)
              => detection'.category = inputType ]_vars

====
